---- MODULE Spec2Model ----
(***************************************************************************)
(* Booking service of the banquet backend (src/unnamed/part_000): the      *)
(* booking store, the principal resolver, the ownership middleware and the *)
(* create / get / status-update / delete handlers.                         *)
(*                                                                         *)
(* Time is counted in ticks; TicksPerDay ticks make the 1000*60*60*24 ms   *)
(* of one day.  A DATEONLY value is a day number d and new Date(d) is the  *)
(* tick d * TicksPerDay (midnight UTC).                                    *)
(* An optional JavaScript value (undefined or v) is the sequence <<>> or   *)
(* <<v>>.                                                                  *)
(***************************************************************************)
EXTENDS Integers, Sequences, FiniteSets, TLC

VARIABLES bookings, now, lastOp, quotes, invoices, venues, notifications,
          gateway, inflight, vendors, authUsers, calendarEvents,
          venueServices

vars ==
  <<bookings, now, lastOp, quotes, invoices, venues, notifications, gateway,
    inflight, vendors, authUsers, calendarEvents, venueServices>>

----------------------------------------------------------------------------
(* Bounds of the model *)

MaxBookings == 1
MaxNow == 2
TicksPerDay == 2

----------------------------------------------------------------------------
(* Values *)

None == <<>>
Some(v) == <<v>>

\* JavaScript truthiness of an optional number: undefined and 0 are falsy
TruthyNum(x) == x # None /\ x[1] # 0

\* JavaScript truthiness of an optional string: undefined and "" are falsy
TruthyStr(x) == x # None /\ x[1] # ""

Roles == {"user", "vendor", "admin", "service_provider"}
UserIds == {1, 2}
Principals == [id : UserIds, role : Roles]
NoUser == [id |-> 0, role |-> "none"]

BookingStatuses == {"pending", "confirmed", "cancelled"}

\* Math.ceil(a / b) for b > 0
Ceil(a, b) == -((-a) \div b)

RECURSIVE SumSeq(_)
SumSeq(s) == IF s = <<>> THEN 0 ELSE Head(s) + SumSeq(Tail(s))

----------------------------------------------------------------------------
(* Principal resolver *)

jwtVerify_Unverified(token) == Some(token.payload)

\* jwt.verify(token, JWT_SECRET): a token is its payload and whether its
\* signature and expiry verify
jwtVerify(token) == IF token.valid THEN Some(token.payload) ELSE None

\* A header that is absent or empty ("") is falsy; a present one is <<value>>
authenticateJWT(headers) ==
  IF headers.xUserId # None /\ headers.xUserRole # None
  THEN [ok |-> TRUE, code |-> 0,
        user |-> [id |-> headers.xUserId[1], role |-> headers.xUserRole[1]]]
  ELSE IF headers.authorization.kind = "absent"
  THEN [ok |-> FALSE, code |-> 401, user |-> NoUser]
  ELSE IF headers.authorization.kind # "bearer"
  THEN [ok |-> FALSE, code |-> 401, user |-> NoUser]
  ELSE IF headers.authorization.token = None
  THEN [ok |-> FALSE, code |-> 401, user |-> NoUser]
  ELSE LET decoded == jwtVerify(headers.authorization.token[1]) IN
       IF decoded = None
       THEN [ok |-> FALSE, code |-> 401, user |-> NoUser]
       ELSE [ok |-> TRUE, code |-> 0, user |-> decoded[1]]

\* The requests' credentials the model draws from
NoAuthorization == [kind |-> "absent", token |-> None]
Bearer(p, valid) ==
  [kind |-> "bearer", token |-> Some([payload |-> p, valid |-> valid])]

GatewayHeaders ==
  { [xUserId |-> Some(p.id), xUserRole |-> Some(p.role),
     authorization |-> NoAuthorization] : p \in Principals }
TokenHeaders ==
  { [xUserId |-> None, xUserRole |-> None,
     authorization |-> Bearer([id |-> 1, role |-> "user"], TRUE)] }
BadHeaders ==
  { [xUserId |-> Some(1), xUserRole |-> None, authorization |-> NoAuthorization],
    [xUserId |-> None, xUserRole |-> None,
     authorization |-> [kind |-> "basic", token |-> None]],
    [xUserId |-> None, xUserRole |-> None,
     authorization |-> Bearer([id |-> 1, role |-> "admin"], FALSE)] }
Headers == GatewayHeaders \cup TokenHeaders \cup BadHeaders

----------------------------------------------------------------------------
(* Booking model *)

\* The attributes sequelize.define('Booking', ...) declares
BookingAttributes ==
  {"userId", "venueId", "vendorId", "date", "guestCount", "pricingType",
   "flatPrice", "perHeadPrice", "minGuests", "additionalServices",
   "totalPrice", "status"}

\* Booking.findByPk(id): <<>> when no row has that id
findByPk(store, id) == IF id \in DOMAIN store THEN Some(store[id]) ELSE None

InstanceUpdate_ResetsTotal(booking, values) ==
  [k \in DOMAIN booking |->
     IF k \in DOMAIN values \cap BookingAttributes THEN values[k]
     ELSE IF k = "totalPrice" THEN 0
     ELSE booking[k]]

\* instance.update(values): Sequelize sets and saves only the keys that are
\* attributes of the model; every other key of values is dropped
InstanceUpdate(booking, values) ==
  [k \in DOMAIN booking |->
     IF k \in DOMAIN values \cap BookingAttributes
     THEN values[k] ELSE booking[k]]

----------------------------------------------------------------------------
(* Authorization decisions *)

\* requireBookingOwnership, lines 112-114
hasBookingOwnership(user, booking) ==
  \/ user.role = "admin"
  \/ booking.userId = user.id
  \/ (user.role = "vendor" /\ booking.vendorId = user.id)

canReadBooking_AnyRole(user, booking) ==
  \/ user.role = "admin"
  \/ booking.vendorId = user.id
  \/ booking.userId = user.id

\* GET /bookings/:id, lines 399-403
canReadBooking(user, booking) ==
  LET isAdmin == user.role = "admin"
      isVendor == user.role = "vendor" /\ booking.vendorId = user.id
      isOwner == booking.userId = user.id
  IN ~(~isAdmin /\ ~isVendor /\ ~isOwner)

canConfirm_AnyVendor(user, booking) ==
  user.role = "admin" \/ user.role = "vendor"

\* PUT status, line 438 (negated: the request may confirm)
canConfirm(user, booking) ==
  ~(user.role # "admin" /\ (user.role # "vendor" \/ booking.vendorId # user.id))

MinDaysRequired == 3

\* PUT status, lines 450-452
daysDifference(date, currentDate) ==
  Ceil(date * TicksPerDay - currentDate, TicksPerDay)

\* PUT status, lines 449-455: the cancellation is refused
cancelRestricted(user, booking, currentDate) ==
  /\ booking.status = "confirmed"
  /\ daysDifference(booking.date, currentDate) < MinDaysRequired
  /\ user.role = "user"

canDelete_VendorToo(user, booking) ==
  \/ user.role = "admin"
  \/ booking.userId = user.id
  \/ (user.role = "vendor" /\ booking.vendorId = user.id)

\* DELETE, line 488 (negated: the request may delete)
canDelete(user, booking) ==
  ~(user.role # "admin" /\ booking.userId # user.id)

----------------------------------------------------------------------------
(* Handlers: each yields the response and the store after the request *)

Response(code, store, wrote, body) ==
  [code |-> code, store |-> store, wrote |-> wrote, body |-> body]

\* GET /api/booking/bookings/:id, lines 384-414
getBooking(user, store, id) ==
  LET found == findByPk(store, id) IN
  IF found = None THEN Response(404, store, FALSE, None)
  ELSE IF ~canReadBooking(user, found[1]) THEN Response(403, store, FALSE, None)
  ELSE Response(200, store, FALSE, found)

statusUnchanged_Never(currentStatus, newStatus) == FALSE

\* PUT status, line 431: the status is not changing
statusUnchanged(currentStatus, newStatus) == currentStatus = newStatus

\* PUT /api/booking/bookings/:id/status after requireBookingOwnership,
\* lines 419-477
updateStatus(user, store, id, booking, status, currentDate) ==
  IF status = None \/ status[1] \notin BookingStatuses
  THEN Response(400, store, FALSE, None)
  ELSE LET newStatus == status[1]
           currentStatus == booking.status
       IN
       IF statusUnchanged(currentStatus, newStatus)
       THEN Response(200, store, FALSE, Some(booking))
       ELSE IF newStatus = "confirmed" /\ ~canConfirm(user, booking)
       THEN Response(403, store, FALSE, None)
       ELSE IF newStatus = "cancelled" /\ cancelRestricted(user, booking, currentDate)
       THEN Response(403, store, FALSE, None)
       ELSE LET updated == InstanceUpdate(booking, [status |-> newStatus]) IN
            Response(200, [store EXCEPT ![id] = updated], TRUE, Some(updated))

\* DELETE /api/booking/bookings/:id after requireBookingOwnership,
\* lines 486-509
deleteBooking(user, store, id, booking, reason, currentDate) ==
  IF ~canDelete(user, booking)
  THEN Response(403, store, FALSE, None)
  ELSE LET updated ==
             InstanceUpdate(booking,
               [status |-> "cancelled",
                deletedBy |-> user.id,
                deletedAt |-> currentDate,
                deletionReason |->
                  IF TruthyStr(reason) THEN reason[1]
                  ELSE "User requested deletion"])
       IN Response(200, [store EXCEPT ![id] = updated], TRUE, None)

requireBookingOwnership_Open(user, store, id) ==
  LET found == findByPk(store, id) IN
  IF found = None THEN [next |-> FALSE, code |-> 404, booking |-> None]
  ELSE [next |-> TRUE, code |-> 0, booking |-> found]

\* requireBookingOwnership, lines 99-125: the booking attached to the
\* request, or the status the middleware answers
requireBookingOwnership(user, store, id) ==
  LET found == findByPk(store, id) IN
  IF found = None THEN [next |-> FALSE, code |-> 404, booking |-> None]
  ELSE IF hasBookingOwnership(user, found[1])
  THEN [next |-> TRUE, code |-> 0, booking |-> found]
  ELSE [next |-> FALSE, code |-> 403, booking |-> None]

\* PUT /api/booking/bookings/:id/status, line 417: the middleware chain
putStatus(headers, store, id, status, currentDate) ==
  LET auth == authenticateJWT(headers)
      owned == requireBookingOwnership(auth.user, store, id)
  IN IF ~auth.ok THEN Response(auth.code, store, FALSE, None)
     ELSE IF ~owned.next THEN Response(owned.code, store, FALSE, None)
     ELSE updateStatus(auth.user, store, id, owned.booking[1], status,
                       currentDate)

\* DELETE /api/booking/bookings/:id, line 485: the middleware chain
deleteRoute(headers, store, id, reason, currentDate) ==
  LET auth == authenticateJWT(headers)
      owned == requireBookingOwnership(auth.user, store, id)
  IN IF ~auth.ok THEN Response(auth.code, store, FALSE, None)
     ELSE IF ~owned.next THEN Response(owned.code, store, FALSE, None)
     ELSE deleteBooking(auth.user, store, id, owned.booking[1], reason,
                        currentDate)

\* GET /api/booking/bookings/:id, line 384: the middleware chain
getRoute(headers, store, id) ==
  LET auth == authenticateJWT(headers) IN
  IF ~auth.ok THEN Response(auth.code, store, FALSE, None)
  ELSE getBooking(auth.user, store, id)

----------------------------------------------------------------------------
(* Booking creation *)

\* additionalServices of a request body: absent, a JSON array of services
\* (each with an optional price), or some other JSON value
NoServices == [kind |-> "undefined", items |-> <<>>]
ServiceArray(items) == [kind |-> "array", items |-> items]
NotAnArray == [kind |-> "object", items |-> <<>>]

\* line 286: (s.price || 0)
priceOrZero(s) == IF TruthyNum(s.price) THEN s.price[1] ELSE 0

servicesTotal_LastOnly(additionalServices) ==
  IF additionalServices.kind = "array" /\ additionalServices.items # <<>>
  THEN priceOrZero(additionalServices.items[Len(additionalServices.items)])
  ELSE 0

\* lines 285-287: the reduce over additionalServices
servicesTotal(additionalServices) ==
  IF additionalServices.kind = "array"
  THEN SumSeq([i \in DOMAIN additionalServices.items |->
                 priceOrZero(additionalServices.items[i])])
  ELSE 0

belowMinimum_Reversed(guestCount, minGuests) == guestCount > minGuests

\* line 276: guestCount < minGuests
belowMinimum(guestCount, minGuests) == guestCount < minGuests

Priced(ok, flatPrice, perHeadPrice, minGuests, totalPrice) ==
  [ok |-> ok, flatPrice |-> flatPrice, perHeadPrice |-> perHeadPrice,
   minGuests |-> minGuests, totalPrice |-> totalPrice]

\* lines 255-287: validation of the pricing fields and the total price
\* (numbers in a body are JSON integers, which parseInt and parseFloat keep)
computePrice(body, pricingType, guestCount) ==
  LET rejected == Priced(FALSE, None, None, None, 0) IN
  IF pricingType = "flat"
  THEN IF ~TruthyNum(body.flatPrice) \/ body.flatPrice[1] <= 0
       THEN rejected
       ELSE Priced(TRUE, body.flatPrice, body.perHeadPrice, body.minGuests,
                   body.flatPrice[1] + servicesTotal(body.additionalServices))
  ELSE IF pricingType = "per_head"
  THEN IF ~TruthyNum(body.perHeadPrice) \/ body.perHeadPrice[1] <= 0
       THEN rejected
       ELSE LET minGuests == IF ~TruthyNum(body.minGuests) THEN 1
                             ELSE body.minGuests[1]
            IN IF belowMinimum(guestCount, minGuests)
               THEN rejected
               ELSE Priced(TRUE, body.flatPrice, body.perHeadPrice,
                           Some(minGuests),
                           guestCount * body.perHeadPrice[1]
                             + servicesTotal(body.additionalServices))
  ELSE rejected

\* venueService.get(`/api/venue/venues/${venueId}`): the remote answer
VenueFound(vendorId) == [ok |-> TRUE, vendorId |-> vendorId]
VenueFailure == [ok |-> FALSE, vendorId |-> 0]

venueLookupFailed_Swallowed(venue) == FALSE

\* lines 214-228: venueService.get threw (timeout, connection failure, remote
\* error) and the catch answers 500
venueLookupFailed(venue) == ~venue.ok

vendorMismatch_Unchecked(venue, vendorId) == FALSE

\* line 222: venue.vendorId.toString() !== vendorId.toString()
vendorMismatch(venue, vendorId) == venue.vendorId # vendorId

\* POST /api/booking/bookings after authenticateJWT, lines 160-309
createBooking(user, store, body, venue, currentDate) ==
  LET requestedUserId == IF user.role # "admin" THEN Some(user.id)
                         ELSE body.userId
      guestCount == IF ~TruthyNum(body.guestCount) /\ TruthyNum(body.guests)
                    THEN body.guests ELSE body.guestCount
      pricingType == IF body.pricingType = None THEN "flat"
                     ELSE body.pricingType[1]
      bad == Response(400, store, FALSE, None)
  IN
  IF ~TruthyNum(requestedUserId) THEN bad
  ELSE IF ~TruthyNum(body.venueId) THEN bad
  ELSE IF ~TruthyNum(body.vendorId) THEN bad
  ELSE IF venueLookupFailed(venue) THEN Response(500, store, FALSE, None)
  ELSE IF vendorMismatch(venue, body.vendorId[1]) THEN bad
  ELSE IF ~TruthyNum(guestCount) \/ guestCount[1] <= 0 THEN bad
  ELSE IF body.date = None THEN bad
  ELSE IF body.date[1] * TicksPerDay < currentDate THEN bad
  ELSE LET priced == computePrice(body, pricingType, guestCount[1]) IN
       IF ~priced.ok THEN bad
       ELSE LET status == IF TruthyStr(body.status) THEN body.status[1]
                          ELSE "pending"
                booking ==
                  [userId |-> requestedUserId[1],
                   venueId |-> body.venueId[1],
                   vendorId |-> body.vendorId[1],
                   date |-> body.date[1],
                   guestCount |-> guestCount[1],
                   pricingType |-> pricingType,
                   flatPrice |-> priced.flatPrice,
                   perHeadPrice |-> priced.perHeadPrice,
                   minGuests |-> priced.minGuests,
                   additionalServices |-> body.additionalServices,
                   totalPrice |-> priced.totalPrice,
                   status |-> status]
            IN \* Booking.create rejects a status outside the ENUM; the
               \* catch of line 306 answers 400
               IF status \notin BookingStatuses THEN bad
               ELSE Response(201, Append(store, booking), TRUE, Some(booking))

\* POST /api/booking/bookings, line 159: the middleware chain
postBooking(headers, store, body, venue, currentDate) ==
  LET auth == authenticateJWT(headers) IN
  IF ~auth.ok THEN Response(auth.code, store, FALSE, None)
  ELSE createBooking(auth.user, store, body, venue, currentDate)

----------------------------------------------------------------------------
(* The requests the model draws from *)

BaseBody ==
  [userId |-> None, venueId |-> Some(1), vendorId |-> Some(2),
   date |-> Some(3), guestCount |-> Some(2), guests |-> None,
   pricingType |-> None, flatPrice |-> Some(5), perHeadPrice |-> None,
   minGuests |-> None, additionalServices |-> NoServices,
   status |-> None, totalPrice |-> None]

\* Bodies of the lifecycle specification: one venue (of vendor 2), one date,
\* flat pricing; an admin names the user it books for
LifecycleBodies ==
  { [BaseBody EXCEPT !.userId = u] : u \in {None, Some(1), Some(2)} }
    \cup { [BaseBody EXCEPT !.totalPrice = Some(99)] }

VenueAnswers == {VenueFailure, VenueFound(1), VenueFound(2)}
LifecycleVenueAnswers == {VenueFailure, VenueFound(2)}

StatusInputs == {Some("pending"), Some("confirmed"), Some("cancelled"),
                 Some("archived")}

ReasonInputs == {None, Some("test")}

BookingIds == 1..(MaxBookings + 1)

----------------------------------------------------------------------------
(* State machine *)

\* lastOp records the request just handled, at time now, and its response
Record(op, user, id, status, reason, body, venue, before, resp) ==
  [op |-> op, user |-> user, id |-> id, status |-> status, reason |-> reason,
   body |-> body, venue |-> venue, before |-> before,
   code |-> resp.code, wrote |-> resp.wrote, result |-> resp.body]

NoOp ==
  [op |-> "none", user |-> NoUser, id |-> 0, status |-> None, reason |-> None,
   body |-> None, venue |-> VenueFailure, before |-> None,
   code |-> 0, wrote |-> FALSE, result |-> None]

\* The tables of the service-provider service, untouched by the booking
\* service
quoteTables == <<quotes, invoices>>

\* The gateway process as it starts: the rate limiter has counted no request
\* and no proxy listens for upgrade requests
GatewayStart == [hits |-> 0, wsSubscribed |-> {}]

\* No request is between its read and its write
NoneInFlight == <<>>

\* The tables of the venue service and of the notification service, the
\* state of the gateway process and the requests in flight
\* The tables of the admin, auth, calendar and venue services
serviceTables == <<vendors, authUsers, calendarEvents, venueServices>>

NoServiceRows ==
  /\ vendors = <<>>
  /\ authUsers = <<>>
  /\ calendarEvents = <<>>
  /\ venueServices = <<>>

otherTables == <<venues, notifications, gateway, inflight, serviceTables>>

Init ==
  /\ bookings = <<>>
  /\ now = 0
  /\ lastOp = NoOp
  /\ quotes = <<>>
  /\ invoices = <<>>
  /\ venues = <<>>
  /\ notifications = <<>>
  /\ gateway = GatewayStart
  /\ inflight = NoneInFlight
  /\ NoServiceRows

Create(Bodies, Venues) ==
  /\ Len(bookings) < MaxBookings
  /\ \E headers \in Headers, body \in Bodies, venue \in Venues :
       \E resp \in {postBooking(headers, bookings, body, venue, now)} :
       /\ bookings' = resp.store
       /\ lastOp' = Record("create", authenticateJWT(headers).user, 0, None,
                           None, Some(body), venue, None, resp)
  /\ UNCHANGED <<now, quoteTables, otherTables>>

CreateBooking == Create(LifecycleBodies, LifecycleVenueAnswers)

GetBooking ==
  /\ \E headers \in Headers, id \in BookingIds :
       \E resp \in {getRoute(headers, bookings, id)} :
       /\ bookings' = resp.store
       /\ lastOp' = Record("get", authenticateJWT(headers).user, id, None,
                           None, None, VenueFailure,
                           findByPk(bookings, id), resp)
  /\ UNCHANGED <<now, quoteTables, otherTables>>

UpdateBookingStatus ==
  /\ \E headers \in Headers, id \in BookingIds, status \in StatusInputs :
       \E resp \in {putStatus(headers, bookings, id, status, now)} :
       /\ bookings' = resp.store
       /\ lastOp' = Record("status", authenticateJWT(headers).user, id, status,
                           None, None, VenueFailure,
                           findByPk(bookings, id), resp)
  /\ UNCHANGED <<now, quoteTables, otherTables>>

DeleteBooking ==
  /\ \E headers \in Headers, id \in BookingIds, reason \in ReasonInputs :
       \E resp \in {deleteRoute(headers, bookings, id, reason, now)} :
       /\ bookings' = resp.store
       /\ lastOp' = Record("delete", authenticateJWT(headers).user, id, None,
                           reason, None, VenueFailure,
                           findByPk(bookings, id), resp)
  /\ UNCHANGED <<now, quoteTables, otherTables>>

\* Time passes between requests; the last response is then a thing of the past
Tick ==
  /\ now < MaxNow
  /\ now' = now + 1
  /\ lastOp' = NoOp
  /\ UNCHANGED <<bookings, quoteTables, otherTables>>

Next ==
  \/ CreateBooking
  \/ GetBooking
  \/ UpdateBookingStatus
  \/ DeleteBooking
  \/ Tick

Spec == Init /\ [][Next]_vars

TypeOK ==
  /\ Len(bookings) <= MaxBookings
  /\ \A i \in DOMAIN bookings :
       /\ DOMAIN bookings[i] = BookingAttributes
       /\ bookings[i].status \in BookingStatuses
  /\ now \in 0..MaxNow

\* The single-booking pricing specification: one principal, one venue, the
\* pricing fields of the body vary
PricingBodies ==
  { [BaseBody EXCEPT !.pricingType = pt, !.flatPrice = fp,
                     !.perHeadPrice = php, !.guestCount = gc,
                     !.minGuests = mg, !.additionalServices = svc] :
      pt \in {Some("flat"), Some("per_head")},
      fp \in {None, Some(5)},
      php \in {None, Some(2)},
      gc \in {Some(2), Some(3)},
      mg \in {None, Some(3)},
      svc \in {NoServices,
               ServiceArray(<<[name |-> "DJ", price |-> Some(5)],
                              [name |-> "Valet", price |-> None]>>),
               ServiceArray(<<[name |-> "Decoration", price |-> Some(5)],
                              [name |-> "DJ", price |-> Some(3)]>>)} }

PricingHeaders ==
  { [xUserId |-> Some(1), xUserRole |-> Some("user"),
     authorization |-> NoAuthorization] }

CreatePriced ==
  /\ Len(bookings) < MaxBookings
  /\ \E headers \in PricingHeaders, body \in PricingBodies :
       \E resp \in {postBooking(headers, bookings, body, VenueFound(2), now)} :
       /\ bookings' = resp.store
       /\ lastOp' = Record("create", authenticateJWT(headers).user, 0, None,
                           None, Some(body), VenueFound(2), None, resp)
  /\ UNCHANGED <<now, quoteTables, otherTables>>

PricingNext ==
  \/ CreatePriced
  \/ Tick

PricingSpec == Init /\ [][PricingNext]_vars

\* The creation-validation specification: the request's credentials, the
\* venue service's answer and the validated fields of the body vary
CreationBodies ==
  { [BaseBody EXCEPT !.pricingType = pt, !.perHeadPrice = Some(2),
                     !.minGuests = mg, !.date = d, !.vendorId = vid] :
      pt \in {Some("flat"), Some("per_head")},
      mg \in {None, Some(2), Some(3)},
      d \in {Some(0), Some(3)},
      vid \in {Some(1), Some(2)} }

CreationHeaders ==
  { [xUserId |-> Some(1), xUserRole |-> Some("user"),
     authorization |-> NoAuthorization],
    [xUserId |-> None, xUserRole |-> None, authorization |-> NoAuthorization] }

CreateValidated ==
  /\ Len(bookings) < MaxBookings
  /\ \E headers \in CreationHeaders, body \in CreationBodies,
        venue \in VenueAnswers :
       \E resp \in {postBooking(headers, bookings, body, venue, now)} :
       /\ bookings' = resp.store
       /\ lastOp' = Record("create", authenticateJWT(headers).user, 0, None,
                           None, Some(body), venue, None, resp)
  /\ UNCHANGED <<now, quoteTables, otherTables>>

CreationNext ==
  \/ CreateValidated
  \/ Tick

CreationSpec == Init /\ [][CreationNext]_vars

----------------------------------------------------------------------------
(* Quotes and invoices of the service-provider service: routes/quotes.js *)

\* Quote.status (models/chat.js, line 170): the ENUM's values
QuoteStatuses ==
  {"draft", "sent", "viewed", "accepted", "rejected", "expired", "invoiced"}

\* ../middleware/auth, authenticateJWT: a request without a verified
\* credential is answered 401, otherwise req.user is the principal
authenticate(credential) ==
  IF credential = None THEN [ok |-> FALSE, code |-> 401, user |-> NoUser]
  ELSE [ok |-> TRUE, code |-> 0, user |-> credential[1]]

\* ../middleware/auth, authorizeRole(roles): next() when req.user.role is one
\* of roles, 403 otherwise
authorizeRole(roles, user) == user.role \in roles

\* The answer of the two middlewares in front of a handler: 0 when both call
\* next()
gate(credential, roles) ==
  LET auth == authenticate(credential) IN
  IF ~auth.ok THEN auth.code
  ELSE IF ~authorizeRole(roles, auth.user) THEN 403
  ELSE 0

\* Quote.findByPk(id) with its items
findQuote(store, id) == IF id \in DOMAIN store THEN Some(store[id]) ELSE None

QResponse(code, quoteStore, invoiceStore) ==
  [code |-> code, quotes |-> quoteStore, invoices |-> invoiceStore]

setStatus(store, id, status) == [store EXCEPT ![id].status = status]

\* checkQuoteAccess, lines 7-40
checkQuoteAccess(user, store, id) ==
  LET quote == findQuote(store, id) IN
  IF quote = None THEN [next |-> FALSE, code |-> 404]
  ELSE IF user.role = "service_provider"
          /\ quote[1].serviceProviderId = user.id
       THEN [next |-> TRUE, code |-> 0]
  ELSE IF user.role = "user" /\ quote[1].userId = user.id
       THEN [next |-> TRUE, code |-> 0]
  ELSE IF user.role = "admin" THEN [next |-> TRUE, code |-> 0]
  ELSE [next |-> FALSE, code |-> 403]

\* lines 1-4: the module binds the models and the two middlewares; the
\* identifier sequelize is bound nowhere in it
sequelizeInScope == FALSE

sequelizeTransaction_NoRollback(before, steps, failAt) ==
  IF failAt = 0 THEN [ok |-> TRUE, tables |-> steps[Len(steps)]]
  ELSE [ok |-> FALSE,
        tables |-> IF failAt = 1 THEN before ELSE steps[failAt - 1]]

\* sequelize.transaction(async t => ...), lines 94 and 323. steps[k] is the
\* content of the tables after the callback's k-th write, failAt the write
\* that throws (0: none). Evaluating the unbound identifier throws a
\* ReferenceError before the callback runs; a managed transaction commits
\* when the callback returns and rolls back when it throws.
sequelizeTransaction(before, steps, failAt) ==
  IF ~sequelizeInScope THEN [ok |-> FALSE, tables |-> before]
  ELSE IF failAt = 0 THEN [ok |-> TRUE, tables |-> steps[Len(steps)]]
  ELSE [ok |-> FALSE, tables |-> before]

\* POST /, lines 82-131 (of the required fields the body's userId,
\* totalAmount and items are kept; customerName, customerEmail and
\* serviceDate are taken as supplied)
createQuote(credential, quoteStore, invoiceStore, body, currentDate, failAt) ==
  LET denied == gate(credential, {"service_provider"})
      user == authenticate(credential).user
      unchanged == [quotes |-> quoteStore, invoices |-> invoiceStore]
  IN
  IF denied # 0 THEN QResponse(denied, quoteStore, invoiceStore)
  ELSE IF \/ ~TruthyNum(body.userId)
          \/ ~TruthyNum(body.totalAmount)
          \/ body.items = None
       THEN QResponse(400, quoteStore, invoiceStore)
  ELSE LET status == IF TruthyStr(body.status) THEN body.status[1]
                     ELSE "draft"
           quote == [serviceProviderId |-> user.id,
                     userId |-> body.userId[1],
                     totalAmount |-> body.totalAmount[1],
                     status |-> status,
                     validUntil |-> IF TruthyNum(body.validUntil)
                                    THEN body.validUntil[1]
                                    ELSE currentDate + 14 * TicksPerDay,
                     items |-> <<>>]
           withQuote == [unchanged EXCEPT !.quotes = Append(quoteStore, quote)]
           withItems ==
             [unchanged EXCEPT
                !.quotes = Append(quoteStore,
                                  [quote EXCEPT !.items = body.items[1]])]
           \* Quote.create rejects a status outside the ENUM
           fails == IF status \notin QuoteStatuses THEN 1 ELSE failAt
           done == sequelizeTransaction(unchanged, <<withQuote, withItems>>,
                                        fails)
       IN QResponse(IF done.ok THEN 201 ELSE 500,
                    done.tables.quotes, done.tables.invoices)

\* lines 162-164: only a draft quote is updated, unless by an admin
updateAllowed(user, quote) == ~(quote.status # "draft" /\ user.role # "admin")

\* PUT /:id, lines 157-212
updateQuote(credential, quoteStore, invoiceStore, id, body) ==
  LET auth == authenticate(credential)
      access == checkQuoteAccess(auth.user, quoteStore, id)
  IN
  IF ~auth.ok THEN QResponse(auth.code, quoteStore, invoiceStore)
  ELSE IF ~access.next THEN QResponse(access.code, quoteStore, invoiceStore)
  ELSE LET quote == quoteStore[id] IN
       IF ~updateAllowed(auth.user, quote)
       THEN QResponse(400, quoteStore, invoiceStore)
       ELSE LET status == IF TruthyStr(body.status) THEN body.status[1]
                          ELSE quote.status
                updated ==
                  [quote EXCEPT
                     !.totalAmount = IF TruthyNum(body.totalAmount)
                                     THEN body.totalAmount[1] ELSE @,
                     !.status = status,
                     !.validUntil = IF TruthyNum(body.validUntil)
                                    THEN body.validUntil[1] ELSE @]
                replaced == IF body.items = None THEN updated
                            ELSE [updated EXCEPT !.items = body.items[1]]
            IN \* quote.update rejects a status outside the ENUM
               IF status \notin QuoteStatuses
               THEN QResponse(500, quoteStore, invoiceStore)
               ELSE QResponse(200, [quoteStore EXCEPT ![id] = replaced],
                              invoiceStore)

\* GET /, lines 43-79: Quote.findAll by role; nothing is written
listQuotes(credential, quoteStore, invoiceStore) ==
  LET auth == authenticate(credential) IN
  IF ~auth.ok THEN QResponse(auth.code, quoteStore, invoiceStore)
  ELSE IF auth.user.role \in {"service_provider", "user", "admin"}
       THEN QResponse(200, quoteStore, invoiceStore)
  ELSE QResponse(403, quoteStore, invoiceStore)

markViewed_AnyReader(user, quote) == quote.status = "sent"

\* line 146: req.user.role === 'user' && quote.status === 'sent'
markViewed(user, quote) == user.role = "user" /\ quote.status = "sent"

\* GET /:id, lines 134-154
getQuote(credential, quoteStore, invoiceStore, id) ==
  LET auth == authenticate(credential)
      access == checkQuoteAccess(auth.user, quoteStore, id)
  IN
  IF ~auth.ok THEN QResponse(auth.code, quoteStore, invoiceStore)
  ELSE IF ~access.next THEN QResponse(access.code, quoteStore, invoiceStore)
  ELSE IF markViewed(auth.user, quoteStore[id])
       THEN QResponse(200, setStatus(quoteStore, id, "viewed"), invoiceStore)
  ELSE QResponse(200, quoteStore, invoiceStore)

\* lines 226 and 270: the quote is directed to this user
addressedTo(quote, userId) == quote.userId = userId

acceptableStatus_AnyButDraft(status) == status # "draft"

\* line 231: the statuses in which a quote can be accepted
acceptableStatus(status) == ~(status # "sent" /\ status # "viewed")

\* line 275: the statuses in which a quote can be rejected
rejectableStatus(status) == ~(status # "sent" /\ status # "viewed")

\* line 238: new Date(quote.validUntil) < new Date()
isExpired(quote, currentDate) == quote.validUntil < currentDate

\* POST /:id/accept, lines 215-256
acceptQuote(credential, quoteStore, invoiceStore, id, currentDate) ==
  LET denied == gate(credential, {"user"})
      user == authenticate(credential).user
      quote == findQuote(quoteStore, id)
  IN
  IF denied # 0 THEN QResponse(denied, quoteStore, invoiceStore)
  ELSE IF quote = None THEN QResponse(404, quoteStore, invoiceStore)
  ELSE IF ~addressedTo(quote[1], user.id)
       THEN QResponse(403, quoteStore, invoiceStore)
  ELSE IF ~acceptableStatus(quote[1].status)
       THEN QResponse(400, quoteStore, invoiceStore)
  ELSE IF isExpired(quote[1], currentDate)
       THEN QResponse(400, setStatus(quoteStore, id, "expired"), invoiceStore)
  ELSE QResponse(200, setStatus(quoteStore, id, "accepted"), invoiceStore)

\* POST /:id/reject, lines 259-294
rejectQuote(credential, quoteStore, invoiceStore, id, currentDate) ==
  LET denied == gate(credential, {"user"})
      user == authenticate(credential).user
      quote == findQuote(quoteStore, id)
  IN
  IF denied # 0 THEN QResponse(denied, quoteStore, invoiceStore)
  ELSE IF quote = None THEN QResponse(404, quoteStore, invoiceStore)
  ELSE IF ~addressedTo(quote[1], user.id)
       THEN QResponse(403, quoteStore, invoiceStore)
  ELSE IF ~rejectableStatus(quote[1].status)
       THEN QResponse(400, quoteStore, invoiceStore)
  ELSE QResponse(200, setStatus(quoteStore, id, "rejected"), invoiceStore)

ownedBy_AnyProvider(quote, serviceProviderId) == TRUE

\* lines 311 and 378: the quote belongs to this service provider
ownedBy(quote, serviceProviderId) == quote.serviceProviderId = serviceProviderId

\* POST /:id/send, lines 367-404
sendQuote(credential, quoteStore, invoiceStore, id) ==
  LET denied == gate(credential, {"service_provider"})
      user == authenticate(credential).user
      quote == findQuote(quoteStore, id)
  IN
  IF denied # 0 THEN QResponse(denied, quoteStore, invoiceStore)
  ELSE IF quote = None THEN QResponse(404, quoteStore, invoiceStore)
  ELSE IF ~ownedBy(quote[1], user.id)
       THEN QResponse(403, quoteStore, invoiceStore)
  ELSE IF quote[1].status # "draft"
       THEN QResponse(400, quoteStore, invoiceStore)
  ELSE QResponse(200, setStatus(quoteStore, id, "sent"), invoiceStore)

\* POST /:id/invoice, lines 297-364
createInvoice(credential, quoteStore, invoiceStore, id, currentDate, failAt) ==
  LET denied == gate(credential, {"service_provider"})
      user == authenticate(credential).user
      quote == findQuote(quoteStore, id)
      unchanged == [quotes |-> quoteStore, invoices |-> invoiceStore]
  IN
  IF denied # 0 THEN QResponse(denied, quoteStore, invoiceStore)
  ELSE IF quote = None THEN QResponse(404, quoteStore, invoiceStore)
  ELSE IF ~ownedBy(quote[1], user.id)
       THEN QResponse(403, quoteStore, invoiceStore)
  ELSE IF quote[1].status # "accepted"
       THEN QResponse(400, quoteStore, invoiceStore)
  ELSE LET invoice == [quoteId |-> id,
                       serviceProviderId |-> quote[1].serviceProviderId,
                       userId |-> quote[1].userId,
                       totalAmount |-> quote[1].totalAmount,
                       status |-> "pending",
                       dueDate |-> currentDate + 7 * TicksPerDay,
                       items |-> <<>>]
           withInvoice ==
             [unchanged EXCEPT !.invoices = Append(invoiceStore, invoice)]
           withItems ==
             [unchanged EXCEPT
                !.invoices = Append(invoiceStore,
                                    [invoice EXCEPT !.items = quote[1].items])]
           withStatus ==
             [withItems EXCEPT !.quotes = setStatus(quoteStore, id, "invoiced")]
           done == sequelizeTransaction(unchanged,
                                        <<withInvoice, withItems, withStatus>>,
                                        failAt)
       IN QResponse(IF done.ok THEN 201 ELSE 500,
                    done.tables.quotes, done.tables.invoices)

----------------------------------------------------------------------------
(* The quote specification *)

QuoteItems == <<[itemName |-> "DJ", quantity |-> 1, unitPrice |-> 7]>>

\* The rows of the Quote table the service starts with: one quote of
\* provider 1 for user 2, in any status of the ENUM
InitialQuotes ==
  { [serviceProviderId |-> 1, userId |-> 2, totalAmount |-> 7,
     status |-> st, validUntil |-> 1, items |-> QuoteItems] :
      st \in QuoteStatuses }

QuoteCredentials ==
  {None} \cup { Some([id |-> i, role |-> r]) :
                  i \in UserIds, r \in {"user", "service_provider", "admin"} }
         \cup { Some([id |-> 1, role |-> "vendor"]) }

QuoteIds == {1, 2}

NoQuoteBody ==
  [userId |-> None, totalAmount |-> None, status |-> None,
   validUntil |-> None, items |-> None]

CreateQuoteBodies ==
  { NoQuoteBody,
    [NoQuoteBody EXCEPT !.userId = Some(2), !.totalAmount = Some(7),
                        !.status = Some("accepted"),
                        !.items = Some(QuoteItems)] }

UpdateQuoteBodies ==
  { [NoQuoteBody EXCEPT !.status = st, !.totalAmount = amt] :
      st \in {None, Some("accepted"), Some("rejected")},
      amt \in {None, Some(9)} }

\* The write of a transaction that throws (0: none)
FailAts == {0, 1, 2, 3}

QuoteRecord(op, credential, id, body, failAt, resp) ==
  [op |-> op, user |-> authenticate(credential).user, id |-> id,
   body |-> body, failAt |-> failAt, before |-> findQuote(quotes, id),
   code |-> resp.code]

QuoteInit ==
  /\ bookings = <<>>
  /\ now = 0
  /\ lastOp = NoOp
  /\ quotes \in { <<q>> : q \in InitialQuotes }
  /\ invoices = <<>>
  /\ venues = <<>>
  /\ notifications = <<>>
  /\ gateway = GatewayStart
  /\ inflight = NoneInFlight
  /\ NoServiceRows

Answer(resp) ==
  /\ quotes' = resp.quotes
  /\ invoices' = resp.invoices
  /\ UNCHANGED <<bookings, now, otherTables>>

CreateQuote ==
  \E credential \in QuoteCredentials, body \in CreateQuoteBodies :
    \E resp \in {createQuote(credential, quotes, invoices, body, now, 0)} :
      /\ Answer(resp)
      /\ lastOp' = QuoteRecord("createQuote", credential, 0, body, 0, resp)

UpdateQuote ==
  \E credential \in QuoteCredentials, id \in QuoteIds,
     body \in UpdateQuoteBodies :
    \E resp \in {updateQuote(credential, quotes, invoices, id, body)} :
      /\ Answer(resp)
      /\ lastOp' = QuoteRecord("updateQuote", credential, id, body, 0, resp)

SendQuote ==
  \E credential \in QuoteCredentials, id \in QuoteIds :
    \E resp \in {sendQuote(credential, quotes, invoices, id)} :
      /\ Answer(resp)
      /\ lastOp' = QuoteRecord("sendQuote", credential, id, NoQuoteBody, 0,
                               resp)

AcceptQuote ==
  \E credential \in QuoteCredentials, id \in QuoteIds :
    \E resp \in {acceptQuote(credential, quotes, invoices, id, now)} :
      /\ Answer(resp)
      /\ lastOp' = QuoteRecord("acceptQuote", credential, id, NoQuoteBody, 0,
                               resp)

RejectQuote ==
  \E credential \in QuoteCredentials, id \in QuoteIds :
    \E resp \in {rejectQuote(credential, quotes, invoices, id, now)} :
      /\ Answer(resp)
      /\ lastOp' = QuoteRecord("rejectQuote", credential, id, NoQuoteBody, 0,
                               resp)

CreateInvoice ==
  \E credential \in QuoteCredentials, id \in QuoteIds, failAt \in FailAts :
    \E resp \in {createInvoice(credential, quotes, invoices, id, now,
                               failAt)} :
      /\ Answer(resp)
      /\ lastOp' = QuoteRecord("createInvoice", credential, id, NoQuoteBody,
                               failAt, resp)

ListQuotes ==
  \E credential \in QuoteCredentials :
    \E resp \in {listQuotes(credential, quotes, invoices)} :
      /\ Answer(resp)
      /\ lastOp' = QuoteRecord("listQuotes", credential, 0, NoQuoteBody, 0,
                               resp)

GetQuote ==
  \E credential \in QuoteCredentials, id \in QuoteIds :
    \E resp \in {getQuote(credential, quotes, invoices, id)} :
      /\ Answer(resp)
      /\ lastOp' = QuoteRecord("getQuote", credential, id, NoQuoteBody, 0,
                               resp)

QuoteNext ==
  \/ CreateQuote
  \/ ListQuotes
  \/ GetQuote
  \/ UpdateQuote
  \/ SendQuote
  \/ AcceptQuote
  \/ RejectQuote
  \/ CreateInvoice
  \/ Tick

QuoteSpec == QuoteInit /\ [][QuoteNext]_vars

----------------------------------------------------------------------------
(* Venue service: services/venue-service/src/index.js *)

\* The decoded payload of a bearer token: id, role and kycStatus
VenuePrincipal(id, role, kycStatus) ==
  [id |-> id, role |-> role, kycStatus |-> kycStatus]

\* authenticateJWT, lines 19-42: only a Bearer token that verifies is
\* accepted; req.user is its payload
venueAuthenticateJWT(authorization) ==
  IF authorization.kind # "bearer" THEN [ok |-> FALSE, code |-> 401, user |-> NoUser]
  ELSE LET decoded == jwtVerify(authorization.token[1]) IN
       IF decoded = None THEN [ok |-> FALSE, code |-> 401, user |-> NoUser]
       ELSE [ok |-> TRUE, code |-> 0, user |-> decoded[1]]

requireVendorOrAdmin_NoKyc(user) ==
  IF user.role = "admin" THEN 0
  ELSE IF user.role # "vendor" THEN 403
  ELSE 0

\* requireVendorOrAdmin, lines 44-49: 0 stands for next()
requireVendorOrAdmin(user) ==
  IF user.role = "admin" THEN 0
  ELSE IF user.role # "vendor" THEN 403
  ELSE IF user.kycStatus # "approved" THEN 403
  ELSE 0

\* Venue.findByPk(id): a destroyed row is <<>>
findVenue(store, id) == IF id \in DOMAIN store THEN store[id] ELSE None

\* requireOwnVenueOrAdmin, lines 51-59 (req.params.id is always present on
\* the routes that use it)
requireOwnVenueOrAdmin(user, store, id) ==
  IF user.role = "admin" THEN 0
  ELSE IF findVenue(store, id) = None THEN 404
  ELSE IF findVenue(store, id)[1].vendorId # user.id THEN 403
  ELSE 0

VResponse(code, store) == [code |-> code, venues |-> store]

\* POST /venues, lines 155-165: Venue.create rejects a body without the
\* attributes declared allowNull: false (name stands for them)
createVenue(authorization, store, body) ==
  LET auth == venueAuthenticateJWT(authorization) IN
  IF ~auth.ok THEN VResponse(auth.code, store)
  ELSE IF requireVendorOrAdmin(auth.user) # 0
       THEN VResponse(requireVendorOrAdmin(auth.user), store)
  ELSE IF body.name = None THEN VResponse(400, store)
  ELSE VResponse(201, Append(store, Some([name |-> body.name[1],
                                          vendorId |-> auth.user.id])))

\* The rows with { id: req.params.id, vendorId: req.user.id }
matchesWhere(store, id, userId) ==
  findVenue(store, id) # None /\ findVenue(store, id)[1].vendorId = userId

\* PUT /venues/:id, lines 168-178: Venue.update(req.body, { where }) sets the
\* attributes the body names
updateVenue(authorization, store, id, body) ==
  LET auth == venueAuthenticateJWT(authorization) IN
  IF ~auth.ok THEN VResponse(auth.code, store)
  ELSE IF requireVendorOrAdmin(auth.user) # 0
       THEN VResponse(requireVendorOrAdmin(auth.user), store)
  ELSE IF requireOwnVenueOrAdmin(auth.user, store, id) # 0
       THEN VResponse(requireOwnVenueOrAdmin(auth.user, store, id), store)
  ELSE IF ~matchesWhere(store, id, auth.user.id) THEN VResponse(404, store)
  ELSE LET venue == store[id][1]
           updated == [name |-> IF body.name = None THEN venue.name
                                ELSE body.name[1],
                       vendorId |-> IF body.vendorId = None THEN venue.vendorId
                                    ELSE body.vendorId[1]]
       IN VResponse(200, [store EXCEPT ![id] = Some(updated)])

\* DELETE /venues/:id, lines 181-190
deleteVenue(authorization, store, id) ==
  LET auth == venueAuthenticateJWT(authorization) IN
  IF ~auth.ok THEN VResponse(auth.code, store)
  ELSE IF requireVendorOrAdmin(auth.user) # 0
       THEN VResponse(requireVendorOrAdmin(auth.user), store)
  ELSE IF requireOwnVenueOrAdmin(auth.user, store, id) # 0
       THEN VResponse(requireOwnVenueOrAdmin(auth.user, store, id), store)
  ELSE IF ~matchesWhere(store, id, auth.user.id) THEN VResponse(404, store)
  ELSE VResponse(200, [store EXCEPT ![id] = None])

\* The venue specification
MaxVenues == 2

VenueAuthorizations ==
  {NoAuthorization} \cup
  { Bearer(VenuePrincipal(i, "vendor", k), TRUE) :
      i \in UserIds, k \in {"approved", "pending"} } \cup
  { Bearer(VenuePrincipal(1, "admin", "pending"), TRUE),
    Bearer(VenuePrincipal(1, "user", "approved"), TRUE),
    Bearer(VenuePrincipal(2, "service_provider", "approved"), TRUE),
    Bearer(VenuePrincipal(1, "admin", "pending"), FALSE) }

VenueBodies ==
  { [name |-> n, vendorId |-> v] :
      n \in {None, Some("Hall")}, v \in {None, Some(2)} }

VenueIds == 1..(MaxVenues + 1)

VenueRecord(op, authorization, id, body, resp) ==
  [op |-> op, user |-> venueAuthenticateJWT(authorization).user, id |-> id,
   body |-> body, before |-> findVenue(venues, id), code |-> resp.code]

VenueAnswer(resp) ==
  /\ venues' = resp.venues
  /\ UNCHANGED <<bookings, now, quoteTables, notifications, gateway, inflight,
                 serviceTables>>

CreateVenue ==
  /\ Len(venues) < MaxVenues
  /\ \E authorization \in VenueAuthorizations, body \in VenueBodies :
       \E resp \in {createVenue(authorization, venues, body)} :
         /\ VenueAnswer(resp)
         /\ lastOp' = VenueRecord("createVenue", authorization, 0, body, resp)

UpdateVenue ==
  \E authorization \in VenueAuthorizations, id \in VenueIds,
     body \in VenueBodies :
    \E resp \in {updateVenue(authorization, venues, id, body)} :
      /\ VenueAnswer(resp)
      /\ lastOp' = VenueRecord("updateVenue", authorization, id, body, resp)

DeleteVenue ==
  \E authorization \in VenueAuthorizations, id \in VenueIds :
    \E resp \in {deleteVenue(authorization, venues, id)} :
      /\ VenueAnswer(resp)
      /\ lastOp' = VenueRecord("deleteVenue", authorization, id,
                               [name |-> None, vendorId |-> None], resp)

VenueNext ==
  \/ CreateVenue
  \/ UpdateVenue
  \/ DeleteVenue

VenueSpec == Init /\ [][VenueNext]_vars

----------------------------------------------------------------------------
(* Media service: services/media-service/src/index.js *)

\* JavaScript values that === compares by type and value
JsNumber(n) == [type |-> "number", value |-> n]
JsString(n) == [type |-> "string", value |-> n]
JsNull == [type |-> "null", value |-> 0]

\* authenticateJWT, lines 39-81: the gateway's headers are trusted and give
\* the id as the header's string; otherwise the payload of a verified Bearer
\* token is the principal, its id the number the token carries. req.user is
\* <<>> while no principal is resolved
mediaAuthenticateJWT(headers) ==
  IF headers.xUserId # None /\ headers.xUserRole # None
  THEN [ok |-> TRUE, code |-> 0,
        user |-> Some([id |-> JsString(headers.xUserId[1]),
                       role |-> headers.xUserRole[1]])]
  ELSE IF headers.authorization.kind # "bearer"
       THEN [ok |-> FALSE, code |-> 401, user |-> None]
  ELSE LET decoded == jwtVerify(headers.authorization.token[1]) IN
       IF decoded = None THEN [ok |-> FALSE, code |-> 401, user |-> None]
       ELSE [ok |-> TRUE, code |-> 0,
             user |-> Some([id |-> JsNumber(decoded[1].id),
                            role |-> decoded[1].role])]

\* lines 475-477: req.user.role !== 'admin' &&
\* media.created_by !== req.user.id && !media.isPublic
restricted(user, media) ==
  user.role # "admin" /\ media.created_by # user.id /\ ~media.isPublic

\* GET /api/media/:id, lines 464-501: media is the row Media.findByPk
\* returns, <<>> when there is none. The two branches for venue media read
\* by a vendor and for booking media hold a comment only and fall through
\* to res.json
getMedia(headers, media) ==
  LET auth == mediaAuthenticateJWT(headers) IN
  IF ~auth.ok THEN auth.code
  ELSE IF media = None THEN 404
  ELSE IF restricted(auth.user[1], media[1])
       THEN IF media[1].referenceType = "venue" /\ auth.user[1].role = "vendor"
            THEN 200
            ELSE IF media[1].referenceType = "booking" THEN 200
            ELSE 403
  ELSE 200

\* The media specification: the rows of the Media table a request can meet.
\* owners are the ids of the principals who own the referenced resource: the
\* vendor of the venue, the parties of the booking, the user of the profile
MediaRows ==
  { [referenceType |-> rt, referenceId |-> 1, created_by |-> cb,
     isPublic |-> pub, owners |-> own] :
      rt \in {"venue", "booking", "profile"},
      cb \in {JsNumber(1), JsNumber(2), JsNull},
      pub \in BOOLEAN,
      own \in {{1}, {2}} }

MediaHeaders ==
  { [xUserId |-> Some(p.id), xUserRole |-> Some(p.role),
     authorization |-> NoAuthorization] : p \in Principals } \cup
  { [xUserId |-> None, xUserRole |-> None,
     authorization |-> Bearer(p, TRUE)] : p \in Principals } \cup
  { [xUserId |-> None, xUserRole |-> None, authorization |-> NoAuthorization],
    [xUserId |-> None, xUserRole |-> None,
     authorization |-> Bearer([id |-> 1, role |-> "admin"], FALSE)] }

GetMedia ==
  /\ \E headers \in MediaHeaders, media \in {None} \cup {Some(r) : r \in MediaRows} :
       lastOp' = [op |-> "getMedia",
                  user |-> mediaAuthenticateJWT(headers).user,
                  media |-> media,
                  code |-> getMedia(headers, media)]
  /\ UNCHANGED <<bookings, now, quoteTables, otherTables>>

MediaNext ==
  \/ GetMedia

MediaSpec == Init /\ [][MediaNext]_vars

----------------------------------------------------------------------------
(* Notification service: services/notification-service/src/index.js *)

\* authenticateJWT, lines 76-109: the gateway's headers are trusted, with
\* x-user-email || null as email; otherwise the payload of a verified Bearer
\* token is the principal. email is <<>> when the principal has none
notificationAuthenticateJWT(headers) ==
  IF headers.xUserId # None /\ headers.xUserRole # None
  THEN [ok |-> TRUE, code |-> 0,
        user |-> [id |-> headers.xUserId[1], role |-> headers.xUserRole[1],
                  email |-> headers.xUserEmail]]
  ELSE IF headers.authorization.kind # "bearer"
       THEN [ok |-> FALSE, code |-> 401,
             user |-> [id |-> 0, role |-> "none", email |-> None]]
  ELSE LET decoded == jwtVerify(headers.authorization.token[1]) IN
       IF decoded = None
       THEN [ok |-> FALSE, code |-> 401,
             user |-> [id |-> 0, role |-> "none", email |-> None]]
       ELSE [ok |-> TRUE, code |-> 0, user |-> decoded[1]]

\* line 181: /^[^\s@]+@[^\s@]+\.[^\s@]+$/ on the addresses the model uses
ValidEmails == {"one@x.io", "two@x.io"}

NResponse(code, store) == [code |-> code, notifications |-> store]

\* lines 190-205: an admin, or a principal sending to its own email
\* (addresses are in lower case)
emailAuthorized(user, to) ==
  IF user.role = "admin" THEN TRUE
  ELSE user.email # None /\ to = user.email[1]

\* POST /api/notification/send, lines 172-250. smtpOk: the SMTP settings are
\* present and transporter.sendMail did not throw
sendEmail(headers, store, body, smtpOk) ==
  LET auth == notificationAuthenticateJWT(headers) IN
  IF ~auth.ok THEN NResponse(auth.code, store)
  ELSE IF body.to = None \/ ~body.complete THEN NResponse(400, store)
  ELSE IF body.to[1] \notin ValidEmails THEN NResponse(400, store)
  ELSE IF ~emailAuthorized(auth.user, body.to[1]) THEN NResponse(403, store)
  ELSE LET status == IF smtpOk THEN "sent" ELSE "failed" IN
       NResponse(IF status = "sent" THEN 201 ELSE 500,
                 Append(store, [to |-> body.to[1], status |-> status,
                                createdBy |-> None]))

notifyAuthorized_VendorsToo(user, userId) ==
  IF user.role = "admin" THEN TRUE
  ELSE IF userId = user.id THEN TRUE
  ELSE user.role = "vendor"

\* lines 274-292: an admin, or a principal notifying itself (both ids
\* compared after toString)
notifyAuthorized(user, userId) ==
  IF user.role = "admin" THEN TRUE
  ELSE IF userId = user.id THEN TRUE
  ELSE FALSE

\* The answers of the auth service's GET /api/auth/users/:id
LookupFailure == [ok |-> FALSE, email |-> None]
LookupFound(email) == [ok |-> TRUE, email |-> email]

\* POST /api/notification/notifications, lines 253-342
sendNotification(headers, store, body, lookup) ==
  LET auth == notificationAuthenticateJWT(headers) IN
  IF ~auth.ok THEN NResponse(auth.code, store)
  ELSE IF ~TruthyNum(body.userId) THEN NResponse(400, store)
  ELSE IF ~body.complete THEN NResponse(400, store)
  ELSE IF ~notifyAuthorized(auth.user, body.userId[1])
       THEN NResponse(403, store)
  ELSE IF ~lookup.ok THEN NResponse(500, store)
  ELSE IF lookup.email = None THEN NResponse(400, store)
  ELSE NResponse(201, Append(store, [to |-> lookup.email[1],
                                     status |-> "sent",
                                     createdBy |-> Some(auth.user.id)]))

\* The notification specification
MaxNotifications == 1

ownEmail(id) == IF id = 1 THEN "one@x.io" ELSE "two@x.io"

NotificationHeaders ==
  { [xUserId |-> Some(p.id), xUserRole |-> Some(p.role), xUserEmail |-> e,
     authorization |-> NoAuthorization] :
      p \in Principals, e \in {None, Some("one@x.io")} } \cup
  { [xUserId |-> None, xUserRole |-> None, xUserEmail |-> None,
     authorization |->
       Bearer([id |-> p.id, role |-> p.role, email |-> Some(ownEmail(p.id))],
              TRUE)] : p \in Principals } \cup
  { [xUserId |-> None, xUserRole |-> None, xUserEmail |-> None,
     authorization |-> NoAuthorization] }

EmailBodies ==
  { [to |-> to, complete |-> c] :
      to \in {None, Some("one@x.io"), Some("two@x.io"), Some("nobody")},
      c \in BOOLEAN }

NotificationBodies ==
  { [userId |-> u, complete |-> c] :
      u \in {None, Some(1), Some(2)}, c \in BOOLEAN }

Lookups == {LookupFailure, LookupFound(None), LookupFound(Some("two@x.io"))}

NotificationRecord(op, headers, body, resp) ==
  [op |-> op, ok |-> notificationAuthenticateJWT(headers).ok,
   user |-> notificationAuthenticateJWT(headers).user,
   body |-> body, code |-> resp.code]

NotificationAnswer(resp) ==
  /\ notifications' = resp.notifications
  /\ UNCHANGED <<bookings, now, quoteTables, venues, gateway, inflight,
                 serviceTables>>

SendEmail ==
  /\ Len(notifications) < MaxNotifications
  /\ \E headers \in NotificationHeaders, body \in EmailBodies,
        smtpOk \in BOOLEAN :
       \E resp \in {sendEmail(headers, notifications, body, smtpOk)} :
         /\ NotificationAnswer(resp)
         /\ lastOp' = NotificationRecord("sendEmail", headers, body, resp)

SendNotification ==
  /\ Len(notifications) < MaxNotifications
  /\ \E headers \in NotificationHeaders, body \in NotificationBodies,
        lookup \in Lookups :
       \E resp \in {sendNotification(headers, notifications, body, lookup)} :
         /\ NotificationAnswer(resp)
         /\ lastOp' = NotificationRecord("sendNotification", headers, body,
                                         resp)

NotificationNext ==
  \/ SendEmail
  \/ SendNotification

NotificationSpec == Init /\ [][NotificationNext]_vars

----------------------------------------------------------------------------
(* Principal resolution of the booking routes: every combination of the
   trusted headers and of the Authorization header *)

ResolverAuthorizations ==
  {NoAuthorization, [kind |-> "basic", token |-> None],
   [kind |-> "bearer", token |-> None]}
    \cup { Bearer([id |-> 2, role |-> "vendor"], valid) : valid \in BOOLEAN }

ResolverHeaders ==
  [xUserId : {None, Some(1)},
   xUserRole : {None, Some("user")},
   authorization : ResolverAuthorizations]

ResolverRecord(headers, r) == r @@ [headers |-> headers]

ResolverInit ==
  /\ bookings = <<>>
  /\ now = 0
  /\ quotes = <<>>
  /\ invoices = <<>>
  /\ venues = <<>>
  /\ notifications = <<>>
  /\ gateway = GatewayStart
  /\ inflight = NoneInFlight
  /\ NoServiceRows
  /\ lastOp = ResolverRecord([xUserId |-> None, xUserRole |-> None,
                              authorization |-> NoAuthorization], NoOp)

ResolveCreate ==
  /\ Len(bookings) < MaxBookings
  /\ \E headers \in ResolverHeaders :
       \E resp \in {postBooking(headers, bookings, BaseBody, VenueFound(2),
                                now)} :
       /\ bookings' = resp.store
       /\ lastOp' = ResolverRecord(headers,
                      Record("create", authenticateJWT(headers).user, 0, None,
                             None, Some(BaseBody), VenueFound(2), None, resp))
  /\ UNCHANGED <<now, quoteTables, otherTables>>

ResolveGet ==
  /\ \E headers \in ResolverHeaders, id \in BookingIds :
       \E resp \in {getRoute(headers, bookings, id)} :
       /\ bookings' = resp.store
       /\ lastOp' = ResolverRecord(headers,
                      Record("get", authenticateJWT(headers).user, id, None,
                             None, None, VenueFailure,
                             findByPk(bookings, id), resp))
  /\ UNCHANGED <<now, quoteTables, otherTables>>

ResolveStatus ==
  /\ \E headers \in ResolverHeaders, id \in BookingIds,
        status \in {Some("confirmed"), Some("cancelled")} :
       \E resp \in {putStatus(headers, bookings, id, status, now)} :
       /\ bookings' = resp.store
       /\ lastOp' = ResolverRecord(headers,
                      Record("status", authenticateJWT(headers).user, id,
                             status, None, None, VenueFailure,
                             findByPk(bookings, id), resp))
  /\ UNCHANGED <<now, quoteTables, otherTables>>

ResolveDelete ==
  /\ \E headers \in ResolverHeaders, id \in BookingIds, reason \in {None} :
       \E resp \in {deleteRoute(headers, bookings, id, reason, now)} :
       /\ bookings' = resp.store
       /\ lastOp' = ResolverRecord(headers,
                      Record("delete", authenticateJWT(headers).user, id, None,
                             reason, None, VenueFailure,
                             findByPk(bookings, id), resp))
  /\ UNCHANGED <<now, quoteTables, otherTables>>

ResolverNext ==
  \/ ResolveCreate
  \/ ResolveGet
  \/ ResolveStatus
  \/ ResolveDelete

ResolverSpec == ResolverInit /\ [][ResolverNext]_vars

----------------------------------------------------------------------------
(* Creations for one venue: two customers, two dates, and the venue's vendor
   confirming *)

MaxConflictBookings == 2

ConflictBodies == { [BaseBody EXCEPT !.date = d] : d \in {Some(3), Some(4)} }

CustomerHeaders ==
  { [xUserId |-> Some(u), xUserRole |-> Some("user"),
     authorization |-> NoAuthorization] : u \in UserIds }

VendorHeaders ==
  [xUserId |-> Some(2), xUserRole |-> Some("vendor"),
   authorization |-> NoAuthorization]

ConflictCreate ==
  /\ Len(bookings) < MaxConflictBookings
  /\ \E headers \in CustomerHeaders, body \in ConflictBodies :
       \E resp \in {postBooking(headers, bookings, body, VenueFound(2), now)} :
       /\ bookings' = resp.store
       /\ lastOp' = Record("create", authenticateJWT(headers).user, 0, None,
                           None, Some(body), VenueFound(2), None, resp)
  /\ UNCHANGED <<now, quoteTables, otherTables>>

ConflictConfirm ==
  /\ \E id \in 1..MaxConflictBookings :
       \E resp \in {putStatus(VendorHeaders, bookings, id, Some("confirmed"),
                              now)} :
       /\ bookings' = resp.store
       /\ lastOp' = Record("status", authenticateJWT(VendorHeaders).user, id,
                           Some("confirmed"), None, None, VenueFailure,
                           findByPk(bookings, id), resp)
  /\ UNCHANGED <<now, quoteTables, otherTables>>

ConflictNext ==
  \/ ConflictCreate
  \/ ConflictConfirm

ConflictSpec == Init /\ [][ConflictNext]_vars

----------------------------------------------------------------------------
(* API gateway: the middleware stack of the gateway process, in the order
   it is registered *)

\* The keys of routes, each proxied under /api/<key>
Services ==
  {"auth", "venue", "vendor", "admin", "booking", "media", "notification",
   "calendar", "service-provider"}

\* A request path is the sequence of its segments
publicPaths ==
  {<<"api", "health">>, <<"api", "auth", "login">>,
   <<"api", "auth", "register">>}

\* app.use(`/api/${service}`, proxy): the service whose proxy a path reaches
mounted(path) ==
  IF Len(path) >= 2 /\ path[1] = "api" /\ path[2] \in Services
  THEN Some(path[2]) ELSE None

\* max of the rate limiter (1000 in the source), per window
RateLimitMax == 2

GResponse(code, forwarded, user, state) ==
  [code |-> code, forwarded |-> forwarded, user |-> user, gateway |-> state]

\* jwtMiddleware: a public path passes without a principal; any other path
\* needs a Bearer token that jwt.verify accepts
jwtMiddleware(req) ==
  IF req.path \in publicPaths
  THEN [next |-> TRUE, user |-> None]
  ELSE IF req.authorization.kind # "bearer"
  THEN [next |-> FALSE, user |-> None]
  ELSE LET decoded == IF req.authorization.token = None THEN None
                      ELSE jwtVerify(req.authorization.token[1])
       IN [next |-> decoded # None, user |-> decoded]

\* rateLimit: the request is counted, and refused once the count exceeds max
\* (the count is kept up to max + 1)
limiter(state) ==
  [state EXCEPT !.hits = IF @ > RateLimitMax THEN @ ELSE @ + 1]

\* A request the Express application handles. code 0 with a non-empty
\* forwarded set stands for the downstream service's own answer; user is the
\* principal onProxyReq puts in X-User-Id and X-User-Role
httpRequest(req, state) ==
  IF req.method = "OPTIONS"
  THEN \* cors answers the preflight itself
       GResponse(204, {}, None, state)
  ELSE IF req.malformedJson
  THEN \* express.json passes its error to the error-handling middleware
       GResponse(500, {}, None, state)
  ELSE IF req.method = "GET" /\ req.path = <<"api", "health">>
  THEN GResponse(200, {}, None, state)
  ELSE LET counted == limiter(state) IN
       IF counted.hits > RateLimitMax
       THEN GResponse(429, {}, None, counted)
       ELSE LET auth == jwtMiddleware(req)
                service == mounted(req.path)
            IN IF ~auth.next THEN GResponse(401, {}, None, counted)
               ELSE IF service = None
               THEN GResponse(404, {}, auth.user, counted)
               ELSE \* the proxy forwards, and with ws: true it listens for
                    \* the server's upgrade event from its first request on
                    GResponse(0, {service[1]}, auth.user,
                              [counted EXCEPT
                                 !.wsSubscribed = @ \cup {service[1]}])

\* A request reaching the gateway's HTTP server. A request with
\* Connection: Upgrade is emitted as the server's upgrade event when a proxy
\* listens for it: Express is not involved, and every listening proxy
\* (created without a context, so matching every url) forwards it to its
\* target. With no listener the server emits it as an ordinary request.
gatewayRequest(req, state) ==
  IF req.upgrade /\ state.wsSubscribed # {}
  THEN GResponse(0, state.wsSubscribed, None, state)
  ELSE httpRequest(req, state)

GatewayPaths ==
  {<<"api", "health">>, <<"api", "auth", "login">>,
   <<"api", "auth", "profile">>, <<"api", "booking", "bookings">>,
   <<"api", "venue", "venues">>, <<"api", "unknown">>}

GatewayAuthorizations ==
  {NoAuthorization, [kind |-> "bearer", token |-> None]}
    \cup { Bearer([id |-> 1, role |-> "user"], valid) : valid \in BOOLEAN }

GatewayRequests ==
  [method : {"GET", "POST", "OPTIONS"}, path : GatewayPaths,
   authorization : GatewayAuthorizations, upgrade : BOOLEAN,
   malformedJson : BOOLEAN]

GatewayNoOp ==
  [op |-> "none",
   request |-> [method |-> "GET", path |-> <<"api", "health">>,
                authorization |-> NoAuthorization, upgrade |-> FALSE,
                malformedJson |-> FALSE],
   code |-> 0, forwarded |-> {}, user |-> None]

GatewayInit ==
  /\ bookings = <<>>
  /\ now = 0
  /\ quotes = <<>>
  /\ invoices = <<>>
  /\ venues = <<>>
  /\ notifications = <<>>
  /\ gateway = GatewayStart
  /\ inflight = NoneInFlight
  /\ NoServiceRows
  /\ lastOp = GatewayNoOp

GatewayRequest ==
  /\ \E req \in GatewayRequests :
       \E resp \in {gatewayRequest(req, gateway)} :
       /\ gateway' = resp.gateway
       /\ lastOp' = [op |-> "gateway", request |-> req, code |-> resp.code,
                     forwarded |-> resp.forwarded, user |-> resp.user]
  /\ UNCHANGED <<bookings, now, quoteTables, venues, notifications, inflight,
                 serviceTables>>

\* windowMs has passed: the limiter starts a new window
WindowReset ==
  /\ gateway.hits > 0
  /\ gateway' = [gateway EXCEPT !.hits = 0]
  /\ lastOp' = GatewayNoOp
  /\ UNCHANGED <<bookings, now, quoteTables, venues, notifications, inflight,
                 serviceTables>>

GatewayNext ==
  \/ GatewayRequest
  \/ WindowReset

GatewaySpec == GatewayInit /\ [][GatewayNext]_vars

----------------------------------------------------------------------------
(* The steps of the mutating booking and quote routes, in the order their
   source runs them. Each check of a route is a step of one kind; a route
   runs its checks in turn and stops at the first one that answers. *)

StepKinds == {"authenticate", "authorize", "validate", "persist", "fail"}

\* One check of kind `kind`: the route stops here when it answers, and
\* otherwise goes on with the checks after it
step(kind, answers, rest) == IF answers THEN <<kind>> ELSE <<kind>> \o rest

\* POST /api/booking/bookings, lines 159-310: authenticateJWT; the security
\* check of lines 161-179; the validations, the venue lookup and the price
\* (lines 181-287); Booking.create
postBookingSteps(headers, store, body, venue, currentDate) ==
  LET auth == authenticateJWT(headers) IN
  step("authenticate", ~auth.ok,
  step("authorize", auth.user.role = "admin" /\ ~TruthyNum(body.userId),
  step("validate",
       ~createBooking(auth.user, store, body, venue, currentDate).wrote,
       <<"persist">>)))

\* PUT /api/booking/bookings/:id/status, lines 417-482: authenticateJWT;
\* requireBookingOwnership (the booking, then its ownership); the status
\* value (line 421); the unchanged status (line 431); the confirmation
\* guard (line 439); the cancellation guard (line 449); booking.update
putStatusSteps(headers, store, id, status, currentDate) ==
  LET auth == authenticateJWT(headers)
      found == findByPk(store, id)
  IN
  step("authenticate", ~auth.ok,
  step("authorize", found = None,
  step("authorize", ~hasBookingOwnership(auth.user, found[1]),
  step("validate", status = None \/ status[1] \notin BookingStatuses,
  step("validate", statusUnchanged(found[1].status, status[1]),
  step("authorize",
       status[1] = "confirmed" /\ ~canConfirm(auth.user, found[1]),
  step("authorize",
       status[1] = "cancelled"
         /\ cancelRestricted(auth.user, found[1], currentDate),
       <<"persist">>)))))))

\* DELETE /api/booking/bookings/:id, lines 485-514: authenticateJWT;
\* requireBookingOwnership; the deletion guard (line 488); booking.update
deleteRouteSteps(headers, store, id) ==
  LET auth == authenticateJWT(headers)
      found == findByPk(store, id)
  IN
  step("authenticate", ~auth.ok,
  step("authorize", found = None,
  step("authorize", ~hasBookingOwnership(auth.user, found[1]),
  step("authorize", ~canDelete(auth.user, found[1]),
       <<"persist">>))))

\* The writes of a route that throw answer 500
persistOrFail(wrote) == IF wrote THEN <<"persist">> ELSE <<"fail">>

\* POST /, lines 82-131: authenticateJWT; authorizeRole; the required
\* fields (line 89); the transaction
createQuoteSteps(credential, quoteStore, invoiceStore, body, currentDate) ==
  LET auth == authenticate(credential)
      resp == createQuote(credential, quoteStore, invoiceStore, body,
                          currentDate, 0)
  IN
  step("authenticate", ~auth.ok,
  step("authorize", ~authorizeRole({"service_provider"}, auth.user),
  step("validate",
       \/ ~TruthyNum(body.userId)
       \/ ~TruthyNum(body.totalAmount)
       \/ body.items = None,
       persistOrFail(resp.code = 201))))

\* PUT /:id, lines 157-212: authenticateJWT; checkQuoteAccess (the quote,
\* then the access to it); the draft status (line 162); quote.update
updateQuoteSteps(credential, quoteStore, invoiceStore, id, body) ==
  LET auth == authenticate(credential)
      quote == findQuote(quoteStore, id)
      resp == updateQuote(credential, quoteStore, invoiceStore, id, body)
  IN
  step("authenticate", ~auth.ok,
  step("authorize", quote = None,
  step("authorize", ~checkQuoteAccess(auth.user, quoteStore, id).next,
  step("validate", ~updateAllowed(auth.user, quote[1]),
       persistOrFail(resp.code = 200)))))

\* POST /:id/send, lines 367-404
sendQuoteSteps(credential, quoteStore, id) ==
  LET auth == authenticate(credential)
      quote == findQuote(quoteStore, id)
  IN
  step("authenticate", ~auth.ok,
  step("authorize", ~authorizeRole({"service_provider"}, auth.user),
  step("authorize", quote = None,
  step("authorize", ~ownedBy(quote[1], auth.user.id),
  step("validate", quote[1].status # "draft",
       <<"persist">>)))))

\* POST /:id/accept, lines 215-256: an expired quote is written as expired
\* and the request answered 400, any other is written as accepted
acceptQuoteSteps(credential, quoteStore, id) ==
  LET auth == authenticate(credential)
      quote == findQuote(quoteStore, id)
  IN
  step("authenticate", ~auth.ok,
  step("authorize", ~authorizeRole({"user"}, auth.user),
  step("authorize", quote = None,
  step("authorize", ~addressedTo(quote[1], auth.user.id),
  step("validate", ~acceptableStatus(quote[1].status),
       <<"validate", "persist">>)))))

\* POST /:id/reject, lines 259-294
rejectQuoteSteps(credential, quoteStore, id) ==
  LET auth == authenticate(credential)
      quote == findQuote(quoteStore, id)
  IN
  step("authenticate", ~auth.ok,
  step("authorize", ~authorizeRole({"user"}, auth.user),
  step("authorize", quote = None,
  step("authorize", ~addressedTo(quote[1], auth.user.id),
  step("validate", ~rejectableStatus(quote[1].status),
       <<"persist">>)))))

\* POST /:id/invoice, lines 297-364
createInvoiceSteps(credential, quoteStore, invoiceStore, id, currentDate) ==
  LET auth == authenticate(credential)
      quote == findQuote(quoteStore, id)
      resp == createInvoice(credential, quoteStore, invoiceStore, id,
                            currentDate, 0)
  IN
  step("authenticate", ~auth.ok,
  step("authorize", ~authorizeRole({"service_provider"}, auth.user),
  step("authorize", quote = None,
  step("authorize", ~ownedBy(quote[1], auth.user.id),
  step("validate", quote[1].status # "accepted",
       persistOrFail(resp.code = 201))))))

StepHeaders ==
  { [xUserId |-> Some(p.id), xUserRole |-> Some(p.role),
     authorization |-> NoAuthorization] :
      p \in {[id |-> 1, role |-> "user"], [id |-> 2, role |-> "user"],
             [id |-> 2, role |-> "vendor"], [id |-> 1, role |-> "admin"]} }
    \cup { [xUserId |-> None, xUserRole |-> None,
            authorization |-> NoAuthorization] }

StepBodies == { BaseBody, [BaseBody EXCEPT !.userId = Some(1)],
                [BaseBody EXCEPT !.guestCount = None] }

StepCredentials ==
  {None, Some([id |-> 2, role |-> "user"]), Some([id |-> 1, role |-> "user"]),
   Some([id |-> 1, role |-> "service_provider"]),
   Some([id |-> 2, role |-> "service_provider"]),
   Some([id |-> 1, role |-> "admin"])}

\* lastOp records the route just run, its answer and the steps it took
StepRecord(op, code, steps) == [op |-> op, code |-> code, steps |-> steps]

StepNoOp == StepRecord("none", 0, <<>>)

StepInit ==
  /\ bookings = <<>>
  /\ now = 0
  /\ lastOp = StepNoOp
  /\ quotes \in { <<q>> : q \in InitialQuotes }
  /\ invoices = <<>>
  /\ venues = <<>>
  /\ notifications = <<>>
  /\ gateway = GatewayStart
  /\ inflight = NoneInFlight
  /\ NoServiceRows

StepCreateBooking ==
  /\ Len(bookings) < MaxBookings
  /\ \E headers \in StepHeaders, body \in StepBodies,
        venue \in {VenueFound(2)} :
       \E resp \in {postBooking(headers, bookings, body, venue, now)} :
       /\ bookings' = resp.store
       /\ lastOp' = StepRecord("create", resp.code,
                               postBookingSteps(headers, bookings, body,
                                                venue, now))
  /\ UNCHANGED <<now, quoteTables, otherTables>>

StepUpdateStatus ==
  /\ \E headers \in StepHeaders, id \in BookingIds, status \in StatusInputs :
       \E resp \in {putStatus(headers, bookings, id, status, now)} :
       /\ bookings' = resp.store
       /\ lastOp' = StepRecord("status", resp.code,
                               putStatusSteps(headers, bookings, id, status,
                                              now))
  /\ UNCHANGED <<now, quoteTables, otherTables>>

StepDeleteBooking ==
  /\ \E headers \in StepHeaders, id \in BookingIds :
       \E resp \in {deleteRoute(headers, bookings, id, None, now)} :
       /\ bookings' = resp.store
       /\ lastOp' = StepRecord("delete", resp.code,
                               deleteRouteSteps(headers, bookings, id))
  /\ UNCHANGED <<now, quoteTables, otherTables>>

StepAnswer(op, resp, steps) ==
  /\ Answer(resp)
  /\ lastOp' = StepRecord(op, resp.code, steps)

StepCreateQuote ==
  \E credential \in StepCredentials, body \in CreateQuoteBodies :
    StepAnswer("createQuote",
               createQuote(credential, quotes, invoices, body, now, 0),
               createQuoteSteps(credential, quotes, invoices, body, now))

StepUpdateQuote ==
  \E credential \in StepCredentials, id \in QuoteIds,
     body \in {NoQuoteBody, [NoQuoteBody EXCEPT !.status = Some("accepted")]} :
    StepAnswer("updateQuote",
               updateQuote(credential, quotes, invoices, id, body),
               updateQuoteSteps(credential, quotes, invoices, id, body))

StepSendQuote ==
  \E credential \in StepCredentials, id \in QuoteIds :
    StepAnswer("sendQuote",
               sendQuote(credential, quotes, invoices, id),
               sendQuoteSteps(credential, quotes, id))

StepAcceptQuote ==
  \E credential \in StepCredentials, id \in QuoteIds :
    StepAnswer("acceptQuote",
               acceptQuote(credential, quotes, invoices, id, now),
               acceptQuoteSteps(credential, quotes, id))

StepRejectQuote ==
  \E credential \in StepCredentials, id \in QuoteIds :
    StepAnswer("rejectQuote",
               rejectQuote(credential, quotes, invoices, id, now),
               rejectQuoteSteps(credential, quotes, id))

StepCreateInvoice ==
  \E credential \in StepCredentials, id \in QuoteIds :
    StepAnswer("createInvoice",
               createInvoice(credential, quotes, invoices, id, now, 0),
               createInvoiceSteps(credential, quotes, invoices, id, now))

StepTick ==
  /\ now < MaxNow
  /\ now' = now + 1
  /\ lastOp' = StepNoOp
  /\ UNCHANGED <<bookings, quoteTables, otherTables>>

StepNext ==
  \/ StepCreateBooking
  \/ StepUpdateStatus
  \/ StepDeleteBooking
  \/ StepCreateQuote
  \/ StepUpdateQuote
  \/ StepSendQuote
  \/ StepAcceptQuote
  \/ StepRejectQuote
  \/ StepCreateInvoice
  \/ StepTick

StepSpec == StepInit /\ [][StepNext]_vars

----------------------------------------------------------------------------
(* Creations whose body names a status *)

InitialStatusBodies ==
  { [BaseBody EXCEPT !.status = st] :
      st \in {None, Some("pending"), Some("confirmed"), Some("cancelled"),
              Some("archived")} }

CreateWithStatus ==
  /\ Len(bookings) < MaxConflictBookings
  /\ \E headers \in CustomerHeaders \cup {VendorHeaders},
        body \in InitialStatusBodies :
       \E resp \in {postBooking(headers, bookings, body, VenueFound(2), now)} :
       /\ bookings' = resp.store
       /\ lastOp' = Record("create", authenticateJWT(headers).user, 0, None,
                           None, Some(body), VenueFound(2), None, resp)
  /\ UNCHANGED <<now, quoteTables, otherTables>>

InitialStatusNext ==
  \/ CreateWithStatus
  \/ ConflictConfirm

InitialStatusSpec == Init /\ [][InitialStatusNext]_vars

----------------------------------------------------------------------------
(* Two status updates on one booking, interleaved. A request awaits the
   database twice: Booking.findByPk in requireBookingOwnership, and
   booking.update at the end of the handler; the validation and the guards
   between the two run on the instance that was read. *)

RaceRequests == {1, 2}

\* The booking the two requests address: user 1's booking of vendor 2's venue
RaceBooking ==
  createBooking([id |-> 1, role |-> "user"], <<>>, BaseBody, VenueFound(2),
                0).store[1]

RaceHeaders == { h \in CustomerHeaders : h.xUserId = Some(1) } \cup {VendorHeaders}

RaceStatuses == {Some("pending"), Some("confirmed"), Some("cancelled")}

Idle == [pc |-> "idle", headers |-> VendorHeaders, status |-> None, code |-> 0]

RaceInit ==
  /\ bookings = <<RaceBooking>>
  /\ now \in 0..MaxNow
  /\ lastOp = NoOp
  /\ quotes = <<>>
  /\ invoices = <<>>
  /\ venues = <<>>
  /\ notifications = <<>>
  /\ gateway = GatewayStart
  /\ inflight = [r \in RaceRequests |-> Idle]
  /\ NoServiceRows

\* lines 417-460: the request arrives, its booking is read and the handler
\* runs up to its answer or up to booking.update
ReadAndGuard ==
  /\ \E r \in RaceRequests, headers \in RaceHeaders, status \in RaceStatuses :
       /\ inflight[r].pc = "idle"
       /\ LET auth == authenticateJWT(headers)
              owned == requireBookingOwnership(auth.user, bookings, 1)
              resp == updateStatus(auth.user, bookings, 1, owned.booking[1],
                                   status, now)
              code == IF ~auth.ok THEN auth.code
                      ELSE IF ~owned.next THEN owned.code
                      ELSE resp.code
              writes == auth.ok /\ owned.next /\ resp.wrote
          IN inflight' =
               [inflight EXCEPT
                  ![r] = [pc |-> IF writes THEN "write" ELSE "done",
                          headers |-> headers, status |-> status,
                          code |-> code]]
  /\ UNCHANGED <<bookings, now, lastOp, quoteTables, venues, notifications,
                 gateway, serviceTables>>

\* line 464: booking.update({ status: newStatus }) sets the row's status
Write ==
  /\ \E r \in RaceRequests :
       /\ inflight[r].pc = "write"
       /\ bookings' = [bookings EXCEPT ![1].status = inflight[r].status[1]]
       /\ inflight' = [inflight EXCEPT ![r].pc = "done"]
  /\ UNCHANGED <<now, lastOp, quoteTables, venues, notifications, gateway,
                 serviceTables>>

RaceNext ==
  \/ ReadAndGuard
  \/ Write

RaceSpec == RaceInit /\ [][RaceNext]_vars

----------------------------------------------------------------------------
(* Two invoice requests on one quote, interleaved. A request awaits the
   database at Quote.findByPk and at the transaction; the ownership and
   status tests between the two run on the quote that was read. *)

InvoiceRequests == {1, 2}

InvoiceCredentials ==
  {Some([id |-> 1, role |-> "service_provider"]),
   Some([id |-> 2, role |-> "service_provider"]),
   Some([id |-> 2, role |-> "user"])}

InvoiceIdle == [pc |-> "idle", credential |-> None, read |-> <<>>, code |-> 0]

InvoiceRaceInit ==
  /\ bookings = <<>>
  /\ now = 0
  /\ lastOp = NoOp
  /\ quotes \in { <<q>> : q \in InitialQuotes }
  /\ invoices = <<>>
  /\ venues = <<>>
  /\ notifications = <<>>
  /\ gateway = GatewayStart
  /\ inflight = [r \in InvoiceRequests |-> InvoiceIdle]
  /\ NoServiceRows

\* The checks of POST /:id/invoice on the quote read (lines 297-320): 0 when
\* the handler goes on to the transaction
invoiceChecks(credential, quoteStore, id) ==
  LET denied == gate(credential, {"service_provider"})
      user == authenticate(credential).user
      quote == findQuote(quoteStore, id)
  IN IF denied # 0 THEN denied
     ELSE IF quote = None THEN 404
     ELSE IF ~ownedBy(quote[1], user.id) THEN 403
     ELSE IF quote[1].status # "accepted" THEN 400
     ELSE 0

\* lines 297-320: the request arrives, the quote is read and tested
ReadQuote ==
  /\ \E r \in InvoiceRequests, credential \in InvoiceCredentials :
       /\ inflight[r].pc = "idle"
       /\ \E code \in {invoiceChecks(credential, quotes, 1)} :
            inflight' =
              [inflight EXCEPT
                 ![r] = [pc |-> IF code = 0 THEN "transaction" ELSE "done",
                         credential |-> credential, read |-> quotes,
                         code |-> code]]
  /\ UNCHANGED <<bookings, now, lastOp, quoteTables, venues, notifications,
                 gateway, serviceTables>>

\* lines 323-358: the transaction creates the invoice and its items from
\* the quote that was read and sets that quote's status
InvoiceTransaction ==
  /\ \E r \in InvoiceRequests, failAt \in FailAts :
       /\ inflight[r].pc = "transaction"
       /\ \E resp \in {createInvoice(inflight[r].credential, inflight[r].read,
                                     invoices, 1, now, failAt)} :
            /\ invoices' = resp.invoices
            /\ quotes' = IF resp.code = 201
                         THEN setStatus(quotes, 1, "invoiced") ELSE quotes
            /\ inflight' = [inflight EXCEPT ![r].pc = "done",
                                            ![r].code = resp.code]
  /\ UNCHANGED <<bookings, now, lastOp, venues, notifications, gateway,
                 serviceTables>>

InvoiceRaceNext ==
  \/ ReadQuote
  \/ InvoiceTransaction

InvoiceRaceSpec == InvoiceRaceInit /\ [][InvoiceRaceNext]_vars

----------------------------------------------------------------------------
(* The identity a downstream service sees for a request that came through
   the gateway: the headers the client sent, as rewritten by onProxyReq,
   read by the vendor service's authenticateJWT and requireVendorOrAdmin. *)

NoIdentityHeaders ==
  [xUserId |-> None, xUserRole |-> None, xUserKycStatus |-> None]

ClientIdentityHeaders ==
  [xUserId : {None, Some(9)}, xUserRole : {None, Some("admin")},
   xUserKycStatus : {None, Some("approved")}]

\* onProxyReq, lines 143-146: X-User-Id and X-User-Role are overwritten
\* when jwtMiddleware has set req.user; every other header of the client's
\* request is proxied as it came
onProxyReq(headers, user) ==
  IF user # None
  THEN [headers EXCEPT !.xUserId = Some(user[1].id),
                       !.xUserRole = Some(user[1].role)]
  ELSE headers

\* The headers of the proxied request. An upgrade request taken by a
\* listening proxy goes out through the websocket path, for which the
\* gateway configures no hook
proxiedHeaders(headers, resp) ==
  IF resp.forwarded = {} THEN None
  ELSE Some(onProxyReq(headers, resp.user))

\* authenticateJWT of the vendor service (part_004, lines 27-63)
vendorServiceAuthenticateJWT(headers, authorization) ==
  IF headers.xUserId # None /\ headers.xUserRole # None
  THEN Some([id |-> headers.xUserId[1], role |-> headers.xUserRole[1],
             kycStatus |-> IF headers.xUserKycStatus # None
                           THEN headers.xUserKycStatus[1] ELSE "pending"])
  ELSE IF authorization.kind # "bearer" \/ authorization.token = None
  THEN None
  ELSE jwtVerify(authorization.token[1])

\* requireVendorOrAdmin of the vendor service (part_004, lines 66-89)
requireVendorOrAdminKyc(user) ==
  IF user.role = "admin" THEN 0
  ELSE IF user.role # "vendor" THEN 403
  ELSE IF user.kycStatus # "approved" THEN 403
  ELSE 0

\* A route of the vendor service behind authenticateJWT and
\* requireVendorOrAdmin: 0 stands for the handler being reached
vendorServiceGate(headers, authorization) ==
  LET user == vendorServiceAuthenticateJWT(headers, authorization)
  IN IF user = None THEN 401 ELSE requireVendorOrAdminKyc(user[1])

ProxyPaths ==
  {<<"api", "vendor", "api", "vendor", "vendors">>, <<"api", "auth", "login">>}

ProxyAuthorizations ==
  {NoAuthorization}
    \cup { Bearer([id |-> 1, role |-> "vendor", kycStatus |-> k], valid) :
             k \in {"approved", "pending"}, valid \in BOOLEAN }

ProxyRequests ==
  [method : {"POST"}, path : ProxyPaths,
   authorization : ProxyAuthorizations, upgrade : BOOLEAN,
   malformedJson : {FALSE}]

ProxyRequest ==
  /\ \E req \in ProxyRequests, headers \in ClientIdentityHeaders :
       \E resp \in {gatewayRequest(req, gateway)} :
       /\ gateway' = resp.gateway
       /\ lastOp' =
            [op |-> "proxy", request |-> req, client |-> headers,
             code |-> resp.code, forwarded |-> resp.forwarded,
             downstream |-> proxiedHeaders(headers, resp),
             gate |-> IF resp.forwarded = {} THEN resp.code
                      ELSE vendorServiceGate(
                             proxiedHeaders(headers, resp)[1],
                             req.authorization)]
  /\ UNCHANGED <<bookings, now, quoteTables, venues, notifications, inflight,
                 serviceTables>>

ProxyNext ==
  \/ ProxyRequest
  \/ WindowReset

ProxySpec == GatewayInit /\ [][ProxyNext]_vars

----------------------------------------------------------------------------
(* Admin service: services/admin-service/src/index.js, with the auth
   service's PUT /api/auth/users/:id that it calls *)

\* authenticateJWT of the admin service, lines 84-122: 0 stands for next()
adminAuthenticateJWT(authorization) ==
  IF authorization.kind # "bearer" \/ authorization.token = None THEN 401
  ELSE LET decoded == jwtVerify(authorization.token[1]) IN
       IF decoded = None THEN 401
       ELSE IF decoded[1].role # "admin" THEN 403
       ELSE 0

\* PUT /api/auth/users/:id of the auth service (auth-service index.js,
\* lines 429-461) as the admin service's axios client sees it: the call
\* rejects when the service cannot be reached or answers 404
authServicePut(users, userId, kycStatus, reachable) ==
  IF ~reachable THEN [accepted |-> FALSE, users |-> users]
  ELSE IF userId \notin DOMAIN users THEN [accepted |-> FALSE, users |-> users]
  ELSE [accepted |-> TRUE,
        users |-> [users EXCEPT ![userId].kycStatus = kycStatus]]

\* updateUserInAuthService, lines 294-307: the rejection is caught and
\* logged, and the function returns false; it never throws
updateUserInAuthService(users, userId, kycStatus, reachable) ==
  LET put == authServicePut(users, userId, kycStatus, reachable)
  IN [returned |-> put.accepted, threw |-> FALSE, accepted |-> put.accepted,
      users |-> put.users]

\* PUT /api/admin/vendors/:id/approve (lines 309-361) and .../reject (lines
\* 363-415): authUpdated is set to true after the awaited call unless the
\* call throws; the value the call returns is not read
setVendorKyc(authorization, vendorStore, users, id, kycStatus, reachable) ==
  LET denied == adminAuthenticateJWT(authorization)
      unchanged == [vendors |-> vendorStore, users |-> users,
                    authServiceUpdated |-> None, accepted |-> FALSE]
  IN IF denied # 0 THEN unchanged @@ [code |-> denied]
     ELSE IF id \notin DOMAIN vendorStore THEN unchanged @@ [code |-> 404]
     ELSE LET call == updateUserInAuthService(users, id, kycStatus, reachable)
          IN [code |-> 200,
              vendors |-> [vendorStore EXCEPT ![id].kycStatus = kycStatus],
              users |-> call.users,
              authServiceUpdated |-> Some(~call.threw),
              accepted |-> call.accepted]

AdminAuthorizations ==
  {NoAuthorization,
   Bearer(VenuePrincipal(1, "admin", "pending"), TRUE),
   Bearer(VenuePrincipal(1, "admin", "pending"), FALSE),
   Bearer(VenuePrincipal(2, "vendor", "approved"), TRUE)}

AdminVendorIds == 1..3

AdminNoOp ==
  [op |-> "none", id |-> 0, code |-> 0, reachable |-> TRUE,
   authServiceUpdated |-> None, accepted |-> FALSE]

\* Two vendors known to the admin service, the first of them also a user of
\* the auth service
AdminInit ==
  /\ bookings = <<>>
  /\ now = 0
  /\ quotes = <<>>
  /\ invoices = <<>>
  /\ venues = <<>>
  /\ notifications = <<>>
  /\ gateway = GatewayStart
  /\ inflight = NoneInFlight
  /\ vendors = <<[kycStatus |-> "pending"], [kycStatus |-> "pending"]>>
  /\ authUsers = <<[kycStatus |-> "pending"]>>
  /\ calendarEvents = <<>>
  /\ venueServices = <<>>
  /\ lastOp = AdminNoOp

AdminAnswer(op, id, reachable, resp) ==
  /\ vendors' = resp.vendors
  /\ authUsers' = resp.users
  /\ lastOp' = [op |-> op, id |-> id, code |-> resp.code,
                reachable |-> reachable,
                authServiceUpdated |-> resp.authServiceUpdated,
                accepted |-> resp.accepted]
  /\ UNCHANGED <<bookings, now, quoteTables, venues, notifications, gateway,
                 inflight, calendarEvents, venueServices>>

ApproveVendor ==
  \E authorization \in AdminAuthorizations, id \in AdminVendorIds,
     reachable \in BOOLEAN :
    \E resp \in {setVendorKyc(authorization, vendors, authUsers, id,
                              "approved", reachable)} :
      AdminAnswer("approve", id, reachable, resp)

RejectVendor ==
  \E authorization \in AdminAuthorizations, id \in AdminVendorIds,
     reachable \in BOOLEAN :
    \E resp \in {setVendorKyc(authorization, vendors, authUsers, id,
                              "rejected", reachable)} :
      AdminAnswer("reject", id, reachable, resp)

AdminNext ==
  \/ ApproveVendor
  \/ RejectVendor

AdminSpec == AdminInit /\ [][AdminNext]_vars

----------------------------------------------------------------------------
(* Calendar service: services/calendar-service/src/index.js *)

\* authenticateJWT of the calendar service, lines 41-76: the principal, or
\* <<>> when the request is answered 401
calendarAuthenticateJWT(headers, authorization) ==
  IF headers.xUserId # None /\ headers.xUserRole # None
  THEN Some([id |-> headers.xUserId[1], role |-> headers.xUserRole[1]])
  ELSE IF authorization.kind # "bearer" \/ authorization.token = None
  THEN None
  ELSE jwtVerify(authorization.token[1])

\* requireRole, lines 79-92: 0 stands for next()
requireRole(roles, user) ==
  IF user = None THEN 401
  ELSE IF user[1].role \notin roles THEN 403
  ELSE 0

\* requireVenueOwnership, lines 101-144. The function is defined and no
\* route of the service mounts it
requireVenueOwnership(user, venueStore, venueId) ==
  IF venueId = None THEN 400
  ELSE IF user.role = "admin" THEN 0
  ELSE IF user.role # "vendor" THEN 403
  ELSE IF findVenue(venueStore, venueId[1]) = None THEN 500
  ELSE IF findVenue(venueStore, venueId[1])[1].vendorId # user.id THEN 403
  ELSE 0

CResponse(code, store) == [code |-> code, events |-> store]

\* CalendarEvent.findByPk(id): a destroyed row is <<>>
findEvent(store, id) == IF id \in DOMAIN store THEN store[id] ELSE None

\* The two middlewares of the event routes
calendarGate(headers, authorization) ==
  requireRole({"admin", "vendor"},
              calendarAuthenticateJWT(headers, authorization))

\* POST /api/calendar/events, lines 170-202
createEvent(headers, authorization, store, body) ==
  LET denied == calendarGate(headers, authorization) IN
  IF denied # 0 THEN CResponse(denied, store)
  ELSE IF body.venueId = None THEN CResponse(400, store)
  ELSE IF body.date = None THEN CResponse(400, store)
  ELSE CResponse(201,
         Append(store,
                Some([venueId |-> body.venueId[1], date |-> body.date[1],
                      isAvailable |-> IF body.isAvailable = None THEN TRUE
                                      ELSE body.isAvailable[1],
                      bookingId |-> None])))

\* PUT /api/calendar/events/:id, lines 262-299: CalendarEvent.update sets
\* the attributes the body names
updateEvent(headers, authorization, store, id, body) ==
  LET denied == calendarGate(headers, authorization)
      user == calendarAuthenticateJWT(headers, authorization)
      existingEvent == findEvent(store, id)
  IN IF denied # 0 THEN CResponse(denied, store)
     ELSE IF existingEvent = None THEN CResponse(404, store)
     ELSE IF /\ body.venueId # None
             /\ body.venueId[1] # existingEvent[1].venueId
             /\ user[1].role # "admin"
     THEN CResponse(403, store)
     ELSE CResponse(200,
            [store EXCEPT ![id] =
               Some([venueId |-> IF body.venueId = None
                                 THEN existingEvent[1].venueId
                                 ELSE body.venueId[1],
                     date |-> IF body.date = None THEN existingEvent[1].date
                              ELSE body.date[1],
                     isAvailable |-> IF body.isAvailable = None
                                     THEN existingEvent[1].isAvailable
                                     ELSE body.isAvailable[1],
                     bookingId |-> existingEvent[1].bookingId])])

\* DELETE /api/calendar/events/:id, lines 301-335
deleteEvent(headers, authorization, store, id) ==
  LET denied == calendarGate(headers, authorization)
      existingEvent == findEvent(store, id)
  IN IF denied # 0 THEN CResponse(denied, store)
     ELSE IF existingEvent = None THEN CResponse(404, store)
     ELSE IF existingEvent[1].bookingId # None THEN CResponse(400, store)
     ELSE CResponse(200, [store EXCEPT ![id] = None])

\* The calendar specification
MaxEvents == 2

NoCalendarHeaders == [xUserId |-> None, xUserRole |-> None]

CalendarCallers ==
  { [headers |-> [xUserId |-> Some(i), xUserRole |-> Some(r)],
     authorization |-> NoAuthorization] :
      i \in UserIds, r \in {"vendor"} }
  \cup
  { [headers |-> [xUserId |-> Some(1), xUserRole |-> Some("user")],
     authorization |-> NoAuthorization],
    [headers |-> NoCalendarHeaders, authorization |-> NoAuthorization],
    [headers |-> NoCalendarHeaders,
     authorization |-> Bearer([id |-> 1, role |-> "admin"], TRUE)] }

CalendarBodies ==
  [venueId : {None, Some(1), Some(2)}, date : {None, Some(1)},
   isAvailable : {None, Some(FALSE)}]

CalendarIds == 1..(MaxEvents + 1)

CalendarNoOp ==
  [op |-> "none", user |-> None, id |-> 0, concerns |-> None, code |-> 0]

\* Venue 1 belongs to vendor 1 and venue 2 to vendor 2
CalendarInit ==
  /\ bookings = <<>>
  /\ now = 0
  /\ quotes = <<>>
  /\ invoices = <<>>
  /\ venues = <<Some([name |-> "Hall", vendorId |-> 1]),
                Some([name |-> "Hall", vendorId |-> 2])>>
  /\ notifications = <<>>
  /\ gateway = GatewayStart
  /\ inflight = NoneInFlight
  /\ vendors = <<>>
  /\ authUsers = <<>>
  /\ calendarEvents = <<>>
  /\ venueServices = <<>>
  /\ lastOp = CalendarNoOp

\* concerns: the venue the request is about (the body's venueId on create,
\* the stored event's venueId on update and delete)
CalendarAnswer(op, caller, id, concerns, resp) ==
  /\ calendarEvents' = resp.events
  /\ lastOp' = [op |-> op,
                user |-> calendarAuthenticateJWT(caller.headers,
                                                 caller.authorization),
                id |-> id, concerns |-> concerns, code |-> resp.code]
  /\ UNCHANGED <<bookings, now, quoteTables, venues, notifications, gateway,
                 inflight, vendors, authUsers, venueServices>>

eventVenue(store, id) ==
  IF findEvent(store, id) = None THEN None
  ELSE Some(findEvent(store, id)[1].venueId)

CreateEvent ==
  /\ Len(calendarEvents) < MaxEvents
  /\ \E caller \in CalendarCallers, body \in CalendarBodies :
       \E resp \in {createEvent(caller.headers, caller.authorization,
                                calendarEvents, body)} :
         CalendarAnswer("createEvent", caller, 0, body.venueId, resp)

UpdateEvent ==
  \E caller \in CalendarCallers, id \in CalendarIds, body \in CalendarBodies :
    \E resp \in {updateEvent(caller.headers, caller.authorization,
                             calendarEvents, id, body)} :
      CalendarAnswer("updateEvent", caller, id,
                     eventVenue(calendarEvents, id), resp)

DeleteEvent ==
  \E caller \in CalendarCallers, id \in CalendarIds :
    \E resp \in {deleteEvent(caller.headers, caller.authorization,
                             calendarEvents, id)} :
      CalendarAnswer("deleteEvent", caller, id,
                     eventVenue(calendarEvents, id), resp)

CalendarNext ==
  \/ CreateEvent
  \/ UpdateEvent
  \/ DeleteEvent

CalendarSpec == CalendarInit /\ [][CalendarNext]_vars

----------------------------------------------------------------------------
(* Venue service, additional services of a venue:
   services/venue-service/src/index.js, lines 272-339 *)

SResponse(code, store) == [code |-> code, services |-> store]

\* The handler registered first for POST /venues/:venueId/additional-services
\* (lines 273-283): no middleware; AdditionalService.create rejects a body
\* without the required attributes (name stands for them)
createAdditionalService(venueStore, store, venueId, body) ==
  IF findVenue(venueStore, venueId) = None THEN SResponse(404, store)
  ELSE IF body.name = None THEN SResponse(400, store)
  ELSE SResponse(201, Append(store, [venueId |-> venueId,
                                     name |-> body.name[1]]))

\* The handler registered second for the same method and path (lines
\* 311-339), behind authenticateJWT
createAdditionalServiceOwned(authorization, venueStore, store, venueId, body) ==
  LET auth == venueAuthenticateJWT(authorization)
      venue == findVenue(venueStore, venueId)
  IN IF ~auth.ok THEN SResponse(auth.code, store)
     ELSE IF venue = None THEN SResponse(404, store)
     ELSE IF auth.user.role # "admin" /\ venue[1].vendorId # auth.user.id
     THEN SResponse(403, store)
     ELSE IF body.name = None THEN SResponse(500, store)
     ELSE SResponse(201, Append(store, [venueId |-> venueId,
                                        name |-> body.name[1]]))

\* Express runs the handlers of a method and path in the order they were
\* registered, the next one only when the one before calls next(): the first
\* handler answers on every branch, so the second is never run
postAdditionalService(authorization, venueStore, store, venueId, body) ==
  LET first == createAdditionalService(venueStore, store, venueId, body)
      calledNext == FALSE
  IN IF calledNext
     THEN createAdditionalServiceOwned(authorization, venueStore, store,
                                       venueId, body)
     ELSE first

\* The additional-services specification
MaxVenueServices == 2

ServiceNoOp ==
  [op |-> "none", user |-> None, venueId |-> 0, code |-> 0]

VenueServiceInit ==
  /\ bookings = <<>>
  /\ now = 0
  /\ quotes = <<>>
  /\ invoices = <<>>
  /\ venues = <<Some([name |-> "Hall", vendorId |-> 1]),
                Some([name |-> "Hall", vendorId |-> 2])>>
  /\ notifications = <<>>
  /\ gateway = GatewayStart
  /\ inflight = NoneInFlight
  /\ vendors = <<>>
  /\ authUsers = <<>>
  /\ calendarEvents = <<>>
  /\ venueServices = <<>>
  /\ lastOp = ServiceNoOp

AddService ==
  /\ Len(venueServices) < MaxVenueServices
  /\ \E authorization \in VenueAuthorizations, venueId \in VenueIds,
        body \in VenueBodies :
       \E resp \in {postAdditionalService(authorization, venues,
                                          venueServices, venueId, body)} :
         /\ venueServices' = resp.services
         /\ lastOp' =
              [op |-> "addService",
               user |-> IF venueAuthenticateJWT(authorization).ok
                        THEN Some(venueAuthenticateJWT(authorization).user)
                        ELSE None,
               venueId |-> venueId, code |-> resp.code]
  /\ UNCHANGED <<bookings, now, quoteTables, venues, notifications, gateway,
                 inflight, vendors, authUsers, calendarEvents>>

\* DELETE /venues/:id of the venue's vendor or an admin (lines 181-190)
RemoveVenue ==
  /\ \E authorization \in VenueAuthorizations, id \in VenueIds :
       \E resp \in {deleteVenue(authorization, venues, id)} :
         /\ venues' = resp.venues
         /\ lastOp' = [op |-> "deleteVenue",
                       user |-> IF venueAuthenticateJWT(authorization).ok
                                THEN Some(venueAuthenticateJWT(authorization).user)
                                ELSE None,
                       venueId |-> id, code |-> resp.code]
  /\ UNCHANGED <<bookings, now, quoteTables, notifications, gateway, inflight,
                 serviceTables>>

VenueServiceNext ==
  \/ AddService
  \/ RemoveVenue

VenueServiceSpec == VenueServiceInit /\ [][VenueServiceNext]_vars

----------------------------------------------------------------------------
(* Properties *)

\* The booking the last request addressed, as it was before the request
Before == lastOp.before[1]

\* The policy's terms, read off the principal and the booking
IsAdmin(p) == p.role = "admin"
IsOwningVendor(p, b) == p.role = "vendor" /\ p.id = b.vendorId
IsBookingUser(p, b) == p.id = b.userId
PassesAccessCheck(p, b) ==
  IsAdmin(p) \/ IsBookingUser(p, b) \/ IsOwningVendor(p, b)

OnBooking(op) ==
  lastOp.op = op /\ lastOp.user # NoUser /\ lastOp.before # None

\* C1 as stated: a status-update to 'confirmed' on an existing booking
\* succeeds only for an admin or the owning vendor; every other principal
\* receives 403 and the booking is unchanged
C1_ConfirmOnlyAdminOrVendor_Original ==
  (OnBooking("status") /\ lastOp.status = Some("confirmed")) =>
    LET may == IsAdmin(lastOp.user) \/ IsOwningVendor(lastOp.user, Before) IN
    /\ lastOp.code = 200 => may
    /\ ~may => (lastOp.code = 403 /\ bookings[lastOp.id] = Before)

\* C1 amended: on a booking that is not already confirmed, a status-update to
\* 'confirmed' succeeds iff the principal is an admin or the owning vendor,
\* and every other principal receives 403; whatever the booking's status, a
\* principal who is neither leaves the booking unchanged
C1_ConfirmOnlyAdminOrVendor ==
  (OnBooking("status") /\ lastOp.status = Some("confirmed")) =>
    LET may == IsAdmin(lastOp.user) \/ IsOwningVendor(lastOp.user, Before) IN
    /\ Before.status # "confirmed" =>
         /\ lastOp.code = 200 <=> may
         /\ may => bookings[lastOp.id].status = "confirmed"
         /\ ~may => lastOp.code = 403
    /\ ~may => bookings[lastOp.id] = Before

\* C1 witness: the booking's own user asked to confirm a pending booking and
\* was refused
C1_Witness ==
  /\ OnBooking("status") /\ lastOp.status = Some("confirmed")
  /\ Before.status = "pending"
  /\ lastOp.user.role = "user" /\ IsBookingUser(lastOp.user, Before)
  /\ lastOp.code = 403

\* C2 as stated: cancelled is terminal, a cancelled booking never has status
\* pending or confirmed again
C2_CancelledIsTerminal ==
  [][\A i \in DOMAIN bookings :
       bookings[i].status = "cancelled" => bookings'[i].status = "cancelled"]_vars

\* C3 as stated: a confirmed booking never returns to pending
C3_ConfirmedNeverPending ==
  [][\A i \in DOMAIN bookings :
       bookings[i].status = "confirmed" => bookings'[i].status # "pending"]_vars

\* C4 as stated: the owning user (role user) cannot cancel a confirmed booking
\* when strictly less than 3 days remain until its date, at any granularity
\* of time; the owning vendor and an admin can
C4_ThreeDayNotice ==
  (OnBooking("status") /\ lastOp.status = Some("cancelled")
     /\ Before.status = "confirmed") =>
    /\ (/\ lastOp.user.role = "user"
        /\ IsBookingUser(lastOp.user, Before)
        /\ Before.date * TicksPerDay - now < MinDaysRequired * TicksPerDay)
         => (lastOp.code # 200 /\ bookings[lastOp.id] = Before)
    /\ (IsAdmin(lastOp.user) \/ IsOwningVendor(lastOp.user, Before))
         => (lastOp.code = 200 /\ bookings[lastOp.id].status = "cancelled")

\* C5 as stated: whatever its role, a principal who is the booking's user and
\* neither an admin nor the owning vendor cancels a confirmed booking only if
\* the days until the event are at least 3
C5_NoticeBindsEveryOwner ==
  (/\ OnBooking("status") /\ lastOp.status = Some("cancelled")
   /\ Before.status = "confirmed"
   /\ IsBookingUser(lastOp.user, Before)
   /\ ~IsAdmin(lastOp.user) /\ ~IsOwningVendor(lastOp.user, Before)
   /\ bookings[lastOp.id].status = "cancelled")
    => daysDifference(Before.date, now) >= MinDaysRequired

\* C6: a status-update whose target is the booking's current status, by any
\* principal that passes the access check, answers 200 with the booking
\* unchanged and writes nothing
C6_SelfTransitionIsNoOp ==
  (/\ OnBooking("status")
   /\ PassesAccessCheck(lastOp.user, Before)
   /\ lastOp.status = Some(Before.status))
    => /\ lastOp.code = 200
       /\ ~lastOp.wrote
       /\ lastOp.result = Some(Before)
       /\ bookings[lastOp.id] = Before

\* C6 witness: the booking's user (role user) asked for 'confirmed' on a
\* confirmed booking
C6_Witness ==
  /\ OnBooking("status")
  /\ Before.status = "confirmed" /\ lastOp.status = Some("confirmed")
  /\ lastOp.user.role = "user" /\ IsBookingUser(lastOp.user, Before)
  /\ lastOp.code = 200

\* C7: GET of an existing booking answers it iff the principal is an admin,
\* the booking's user or the owning vendor; everyone else gets 403, never 404
C7_GetBookingAccess ==
  OnBooking("get") =>
    IF PassesAccessCheck(lastOp.user, Before)
    THEN lastOp.code = 200 /\ lastOp.result = Some(Before)
    ELSE lastOp.code = 403 /\ lastOp.result = None

\* C7 witness: a principal of role user whose id is the booking's vendorId,
\* but who is not its user, was refused with 403
C7_Witness ==
  /\ OnBooking("get")
  /\ lastOp.user.role = "user"
  /\ lastOp.user.id = Before.vendorId /\ lastOp.user.id # Before.userId
  /\ lastOp.code = 403

\* C8: delete is permitted iff the principal is an admin or the booking's
\* user; everyone else, the owning vendor included, gets 403 and the booking
\* is unchanged
C8_DeleteOnlyAdminOrUser ==
  OnBooking("delete") =>
    IF IsAdmin(lastOp.user) \/ IsBookingUser(lastOp.user, Before)
    THEN lastOp.code = 200 /\ lastOp.wrote
    ELSE lastOp.code = 403 /\ ~lastOp.wrote /\ bookings[lastOp.id] = Before

\* C8 witness: the owning vendor, not the booking's user, was refused
C8_Witness ==
  /\ OnBooking("delete")
  /\ IsOwningVendor(lastOp.user, Before) /\ ~IsBookingUser(lastOp.user, Before)
  /\ lastOp.code = 403
  /\ bookings[lastOp.id] = Before

\* C9 as stated: after a permitted delete the booking still exists, is
\* cancelled and carries deletedBy, deletedAt and deletionReason
C9_SoftDeleteMetadata ==
  (OnBooking("delete") /\ lastOp.code = 200) =>
    /\ lastOp.id \in DOMAIN bookings
    /\ LET b == bookings[lastOp.id] IN
       /\ b.status = "cancelled"
       /\ "deletedBy" \in DOMAIN b /\ b.deletedBy = lastOp.user.id
       /\ "deletedAt" \in DOMAIN b
       /\ "deletionReason" \in DOMAIN b
       /\ lastOp.reason # None => b.deletionReason = lastOp.reason[1]

\* The sum of the services' prices, a service without a price counting as 0
RECURSIVE SumOfPrices(_)
SumOfPrices(items) ==
  IF items = <<>> THEN 0
  ELSE (IF Head(items).price = None THEN 0 ELSE Head(items).price[1])
       + SumOfPrices(Tail(items))

\* C10: an accepted creation stores totalPrice = flatPrice + the services'
\* prices under flat pricing, and guestCount * perHeadPrice + the services'
\* prices under per_head pricing
C10_TotalPrice ==
  (lastOp.op = "create" /\ lastOp.code = 201) =>
    LET body == lastOp.body[1]
        extras == IF body.additionalServices.kind = "array"
                  THEN SumOfPrices(body.additionalServices.items) ELSE 0
        stored == bookings[Len(bookings)]
    IN /\ lastOp.result = Some(stored)
       /\ body.pricingType = Some("flat") =>
            /\ body.flatPrice # None /\ body.flatPrice[1] > 0
            /\ stored.totalPrice = body.flatPrice[1] + extras
       /\ body.pricingType = Some("per_head") =>
            /\ body.perHeadPrice # None /\ body.perHeadPrice[1] > 0
            /\ stored.totalPrice =
                 body.guestCount[1] * body.perHeadPrice[1] + extras

\* C10 witness: a per_head booking with two services, one without a price
C10_Witness ==
  /\ lastOp.op = "create" /\ lastOp.code = 201
  /\ lastOp.body[1].pricingType = Some("per_head")
  /\ lastOp.body[1].guestCount = Some(3)
  /\ lastOp.body[1].additionalServices.kind = "array"
  /\ \E i \in DOMAIN lastOp.body[1].additionalServices.items :
       lastOp.body[1].additionalServices.items[i].price = None
  /\ bookings[Len(bookings)].totalPrice = 11

\* The creation request just handled reached the handler with a principal
Authenticated == lastOp.user # NoUser

\* The supplied minGuests is greater than the supplied guestCount
MinGuestsAboveCount(body) ==
  /\ body.minGuests # None
  /\ body.guestCount # None
  /\ body.minGuests[1] > body.guestCount[1]

\* C11 as stated: every creation request whose supplied minGuests is greater
\* than its guestCount fails and persists no booking, whatever its
\* pricingType.
C11_MinGuests_Original ==
  [][(lastOp'.op = "create" /\ MinGuestsAboveCount(lastOp'.body[1]))
       => (lastOp'.code # 201 /\ bookings' = bookings)]_vars

\* C11: a per_head creation request whose supplied minGuests is greater than
\* its guestCount fails and persists no booking; when the request is
\* authenticated and the venue check passed, the failure is the validation
\* error 400.
C11_MinGuests ==
  [][(/\ lastOp'.op = "create"
      /\ lastOp'.body[1].pricingType = Some("per_head")
      /\ MinGuestsAboveCount(lastOp'.body[1]))
       => /\ lastOp'.code \in {400, 401, 500}
          /\ bookings' = bookings
          /\ (/\ lastOp'.user # NoUser
              /\ lastOp'.venue.ok
              /\ Some(lastOp'.venue.vendorId) = lastOp'.body[1].vendorId)
               => lastOp'.code = 400]_vars

\* An authenticated per_head request for a future date at a verified venue,
\* refused only for its guest count
C11_Witness ==
  /\ lastOp.op = "create"
  /\ Authenticated
  /\ lastOp.body[1].pricingType = Some("per_head")
  /\ MinGuestsAboveCount(lastOp.body[1])
  /\ lastOp.venue.ok
  /\ Some(lastOp.venue.vendorId) = lastOp.body[1].vendorId
  /\ lastOp.body[1].date[1] * TicksPerDay > now
  /\ lastOp.code = 400
  /\ bookings = <<>>

\* C12: a creation request whose date is not strictly later than the time of
\* the request, the date equal to that time included, fails and persists
\* no booking.
C12_DateNotInFuture ==
  [][(/\ lastOp'.op = "create"
      /\ lastOp'.body[1].date # None
      /\ lastOp'.body[1].date[1] * TicksPerDay <= now)
       => (lastOp'.code # 201 /\ bookings' = bookings)]_vars

\* The price line 266/280/286 computes from the fields the booking stores
storedPrice(b) ==
  (IF b.pricingType = "flat" THEN b.flatPrice[1]
   ELSE b.guestCount * b.perHeadPrice[1])
  + (IF b.additionalServices.kind = "array"
     THEN SumOfPrices(b.additionalServices.items) ELSE 0)

\* C13: every persisted booking's totalPrice is the price computed from its
\* stored pricingType, flatPrice/perHeadPrice, guestCount and
\* additionalServices; a totalPrice in the creation body is ignored and
\* neither a status update nor a delete changes totalPrice.
C13_TotalPriceServerComputed ==
  /\ \A i \in DOMAIN bookings : bookings[i].totalPrice = storedPrice(bookings[i])
  /\ (lastOp.op = "create" /\ lastOp.code = 201)
       => lastOp.result[1].totalPrice = storedPrice(lastOp.result[1])
  /\ (OnBooking("status") \/ OnBooking("delete"))
       => /\ lastOp.id \in DOMAIN bookings
          /\ bookings[lastOp.id].totalPrice = Before.totalPrice

\* A booking created with a different client-supplied totalPrice
C13_Witness ==
  /\ lastOp.op = "create"
  /\ lastOp.code = 201
  /\ lastOp.body[1].totalPrice # None
  /\ lastOp.body[1].totalPrice # Some(lastOp.result[1].totalPrice)
  /\ bookings[Len(bookings)] = lastOp.result[1]

\* C14: a request that persists a booking got the booking's vendorId from
\* the venue service as the venue's vendor; an authenticated request whose
\* vendorId differs from the venue's is refused with 400 and persists nothing.
C14_VendorMatchesVenue ==
  [][lastOp'.op = "create"
       => /\ bookings' # bookings
              => /\ lastOp'.venue.ok
                 /\ bookings' = Append(bookings, lastOp'.result[1])
                 /\ lastOp'.result[1].vendorId = lastOp'.venue.vendorId
                 /\ Some(lastOp'.result[1].venueId) = lastOp'.body[1].venueId
          /\ (/\ lastOp'.user # NoUser
              /\ lastOp'.venue.ok
              /\ Some(lastOp'.venue.vendorId) # lastOp'.body[1].vendorId)
               => (lastOp'.code = 400 /\ bookings' = bookings)]_vars

\* An otherwise valid request naming a vendor that is not the venue's
C14_Witness ==
  /\ lastOp.op = "create"
  /\ Authenticated
  /\ lastOp.venue.ok
  /\ Some(lastOp.venue.vendorId) # lastOp.body[1].vendorId
  /\ lastOp.body[1].date[1] * TicksPerDay > now
  /\ ~MinGuestsAboveCount(lastOp.body[1])
  /\ lastOp.code = 400
  /\ bookings = <<>>

\* C15: an authenticated creation request whose venue lookup fails is
\* answered 500 and persists nothing, and no request persists a booking
\* without a venue answer that passed the ownership check.
C15_VenueLookupFailure ==
  [][lastOp'.op = "create"
       => /\ (lastOp'.user # NoUser /\ ~lastOp'.venue.ok)
               => (lastOp'.code = 500 /\ bookings' = bookings)
          /\ bookings' # bookings
               => /\ lastOp'.venue.ok
                  /\ Some(lastOp'.venue.vendorId) = lastOp'.body[1].vendorId]_vars

\* An otherwise valid request whose venue lookup failed
C15_Witness ==
  /\ lastOp.op = "create"
  /\ Authenticated
  /\ ~lastOp.venue.ok
  /\ lastOp.body[1].date[1] * TicksPerDay > now
  /\ ~MinGuestsAboveCount(lastOp.body[1])
  /\ lastOp.code = 500
  /\ bookings = <<>>

\* The quote the last request addressed, before and after the request
QBefore == lastOp.before[1]
QAfter == quotes[lastOp.id]

OnQuote(op) == lastOp.op = op /\ lastOp.before # None

\* The last request came from the user the quote is addressed to
ByAddressedUser ==
  lastOp.user.role = "user" /\ lastOp.user.id = QBefore.userId

\* The last request came from the service provider who owns the quote
ByOwningProvider ==
  /\ lastOp.user.role = "service_provider"
  /\ lastOp.user.id = QBefore.serviceProviderId

\* C16: on a quote in status sent or viewed whose validUntil is earlier than
\* now, an accept request and a reject request by the addressed user both set
\* the status to expired and answer with the expiry error; neither accepted
\* nor rejected is applied.
C16_ExpiredNeverAnswered ==
  (/\ OnQuote("acceptQuote") \/ OnQuote("rejectQuote")
   /\ ByAddressedUser
   /\ QBefore.status \in {"sent", "viewed"}
   /\ QBefore.validUntil < now)
    => /\ QAfter.status = "expired"
       /\ lastOp.code = 400

\* C17: an accept or reject request on a quote whose status is neither sent
\* nor viewed is refused and leaves the quote as it was.
C17_OnlySentOrViewed ==
  (/\ OnQuote("acceptQuote") \/ OnQuote("rejectQuote")
   /\ QBefore.status \notin {"sent", "viewed"})
    => /\ lastOp.code \in {400, 401, 403}
       /\ QAfter = QBefore

\* The addressed user's accept of a quote that is still a draft
C17_Witness ==
  /\ OnQuote("acceptQuote")
  /\ ByAddressedUser
  /\ QBefore.status = "draft"
  /\ lastOp.code = 400
  /\ QAfter.status = "draft"

\* C18: a send request succeeds exactly when the owning service_provider
\* issues it on a draft quote, and then only the status changes, to sent;
\* every other send request is refused and leaves the quote unchanged.
C18_SendOnlyOwnDraft ==
  OnQuote("sendQuote")
    => /\ lastOp.code = 200 <=> (ByOwningProvider /\ QBefore.status = "draft")
       /\ lastOp.code = 200 => QAfter = [QBefore EXCEPT !.status = "sent"]
       /\ lastOp.code # 200 => (lastOp.code \in {400, 401, 403}
                                /\ QAfter = QBefore)

\* The owning provider's send of its draft quote
C18_Witness ==
  /\ OnQuote("sendQuote")
  /\ ByOwningProvider
  /\ QBefore.status = "draft"
  /\ lastOp.code = 200
  /\ QAfter.status = "sent"

\* C19: a quote comes to status accepted (rejected) only by an accept
\* (reject) request of the user it is addressed to, made while it was sent or
\* viewed; no create, update, send or invoice request puts a quote into
\* accepted or rejected.
C19_AnswerOnlyByAddressedUser ==
  [][\A id \in DOMAIN quotes' :
       (/\ quotes'[id].status \in {"accepted", "rejected"}
        /\ id \in DOMAIN quotes => quotes[id].status # quotes'[id].status)
        => /\ id \in DOMAIN quotes
           /\ quotes[id].status \in {"sent", "viewed"}
           /\ lastOp'.id = id
           /\ lastOp'.user = [id |-> quotes[id].userId, role |-> "user"]
           /\ lastOp'.op = IF quotes'[id].status = "accepted"
                           THEN "acceptQuote" ELSE "rejectQuote"]_vars

C21_InvoiceFromAcceptedQuote ==
  (/\ OnQuote("createInvoice")
   /\ ByOwningProvider
   /\ QBefore.status = "accepted"
   /\ lastOp.failAt = 0)
    => /\ lastOp.code = 201
       /\ invoices # <<>>
       /\ invoices[Len(invoices)] =
            [quoteId |-> lastOp.id,
             serviceProviderId |-> QBefore.serviceProviderId,
             userId |-> QBefore.userId,
             totalAmount |-> QBefore.totalAmount,
             status |-> "pending",
             dueDate |-> now + 7 * TicksPerDay,
             items |-> QBefore.items]
       /\ QAfter = [QBefore EXCEPT !.status = "invoiced"]

\* C22: a GET of one quote changes nothing but the status of that quote, and
\* that only when the addressed user reads a sent quote, which becomes
\* viewed; every other GET of a quote and every GET of the list leaves the
\* quotes and the invoices as they were.
C22_ReadMarksViewed ==
  [][lastOp'.op \in {"getQuote", "listQuotes"}
       => /\ invoices' = invoices
          /\ IF /\ lastOp'.op = "getQuote"
                /\ lastOp'.before # None
                /\ lastOp'.user = [id |-> lastOp'.before[1].userId,
                                   role |-> "user"]
                /\ lastOp'.before[1].status = "sent"
             THEN /\ quotes' = setStatus(quotes, lastOp'.id, "viewed")
                  /\ lastOp'.code = 200
             ELSE quotes' = quotes]_vars

\* The addressed user's read of a sent quote
C22_Witness ==
  /\ OnQuote("getQuote")
  /\ ByAddressedUser
  /\ QBefore.status = "sent"
  /\ lastOp.code = 200
  /\ QAfter = [QBefore EXCEPT !.status = "viewed"]

\* The venue the last request addressed, before and after the request
VBefore == lastOp.before[1]
VAfter == venues[lastOp.id]

OnVenue(op) ==
  lastOp.op = op /\ lastOp.user # NoUser /\ lastOp.before # None

\* canManageVenue: an admin, or the vendor the venue belongs to
MayManageVenue ==
  \/ lastOp.user.role = "admin"
  \/ lastOp.user.role = "vendor" /\ lastOp.user.id = VBefore.vendorId

\* C23: an update or delete of an existing venue succeeds and takes effect
\* for an admin, whoever owns the venue, and for the vendor who owns it; for
\* every other principal it is refused and leaves the venue unchanged.
C23_ManageVenue ==
  /\ OnVenue("updateVenue")
       => IF MayManageVenue
          THEN /\ lastOp.code = 200
               /\ VAfter # None
               /\ lastOp.body.name # None => VAfter[1].name = lastOp.body.name[1]
          ELSE lastOp.code = 403 /\ VAfter = Some(VBefore)
  /\ OnVenue("deleteVenue")
       => IF MayManageVenue
          THEN lastOp.code = 200 /\ VAfter = None
          ELSE lastOp.code = 403 /\ VAfter = Some(VBefore)

\* C30: a venue creation by a principal who is neither an admin nor a vendor
\* with kycStatus approved is answered 403 and creates no venue.
C30_CreateVenueGate ==
  [][(/\ lastOp'.op = "createVenue"
      /\ lastOp'.user # NoUser
      /\ lastOp'.user.role # "admin"
      /\ ~(lastOp'.user.role = "vendor"
           /\ lastOp'.user.kycStatus = "approved"))
       => (lastOp'.code = 403 /\ venues' = venues)]_vars

\* A vendor whose KYC is pending, refused with a complete body
C30_Witness ==
  /\ lastOp.op = "createVenue"
  /\ lastOp.user.role = "vendor"
  /\ lastOp.user.kycStatus = "pending"
  /\ lastOp.body.name # None
  /\ lastOp.code = 403
  /\ venues = <<>>

\* canAccessMedia for the principal and the media row of the last request:
\* an admin, public media, the creator, or an owner of the referenced
\* resource (ids compared by value)
MayAccessMedia ==
  LET user == lastOp.user[1]
      media == lastOp.media[1]
  IN \/ user.role = "admin"
     \/ media.isPublic
     \/ media.created_by.type = "number"
        /\ media.created_by.value = user.id.value
     \/ media.referenceType = "venue" /\ user.role = "vendor"
        /\ user.id.value \in media.owners
     \/ media.referenceType \in {"booking", "profile"}
        /\ user.id.value \in media.owners

\* C24: a GET of an existing media record answers 200 exactly when the
\* principal is an admin, the media is public, the principal created it, or
\* the principal owns the referenced resource; every other principal is
\* answered 403.
C24_MediaAccess ==
  (lastOp.op = "getMedia" /\ lastOp.user # None /\ lastOp.media # None)
    => IF MayAccessMedia THEN lastOp.code = 200 ELSE lastOp.code = 403

HandledAs(user) ==
  LET op == lastOp'.op
      id == lastOp'.id
      owned == requireBookingOwnership(user, bookings, id)
  IN IF op = "create"
     THEN createBooking(user, bookings, lastOp'.body[1], lastOp'.venue, now)
     ELSE IF op = "get" THEN getBooking(user, bookings, id)
     ELSE IF ~owned.next THEN Response(owned.code, bookings, FALSE, None)
     ELSE IF op = "status"
     THEN updateStatus(user, bookings, id, owned.booking[1], lastOp'.status,
                       now)
     ELSE deleteBooking(user, bookings, id, owned.booking[1], lastOp'.reason,
                        now)

AnsweredLike(resp) ==
  /\ lastOp'.code = resp.code
  /\ lastOp'.result = resp.body
  /\ bookings' = resp.store

TrustedHeaders(h) == h.xUserId # None /\ h.xUserRole # None

VerifiedBearer(h) ==
  /\ h.authorization.kind = "bearer"
  /\ h.authorization.token # None
  /\ h.authorization.token[1].valid

\* C26: a booking request with both x-user-id and x-user-role is handled as
\* the principal those headers name, whatever its Authorization header; a
\* request without them is handled as the payload of its Bearer token when
\* that token verifies, and is otherwise answered 401 with the Booking table
\* untouched.
C26_PrincipalResolution ==
  [][lastOp'.op # "none" =>
       LET h == lastOp'.headers IN
       IF TrustedHeaders(h)
       THEN AnsweredLike(HandledAs([id |-> h.xUserId[1],
                                    role |-> h.xUserRole[1]]))
       ELSE IF VerifiedBearer(h)
       THEN AnsweredLike(HandledAs(h.authorization.token[1].payload))
       ELSE /\ lastOp'.code = 401
            /\ ~lastOp'.wrote
            /\ bookings' = bookings]_vars

\* A creation with trusted headers and a token that does not verify was
\* stored for the principal of the headers
C26_Witness ==
  /\ lastOp.op = "create"
  /\ lastOp.code = 201
  /\ TrustedHeaders(lastOp.headers)
  /\ lastOp.headers.authorization.kind = "bearer"
  /\ ~VerifiedBearer(lastOp.headers)
  /\ bookings[Len(bookings)].userId = lastOp.headers.xUserId[1]

\* C28: a confirmed booking never coexists with another booking for the same
\* venue and date that is not cancelled.
C28_NoDoubleBooking ==
  \A i, j \in DOMAIN bookings :
    ~(/\ i # j
      /\ bookings[i].venueId = bookings[j].venueId
      /\ bookings[i].date = bookings[j].date
      /\ bookings[i].status = "confirmed"
      /\ bookings[j].status # "cancelled")

OutsideAuth(path) == ~(Len(path) >= 2 /\ path[1] = "api" /\ path[2] = "auth")

\* C29: a request for a path outside /api/auth that the gateway forwarded to
\* a downstream service carried a Bearer token that verifies.
C29_ForwardOnlyWithToken ==
  (/\ lastOp.op = "gateway"
   /\ OutsideAuth(lastOp.request.path)
   /\ lastOp.forwarded # {})
    => VerifiedBearer(lastOp.request)

stepRank(kind) ==
  IF kind = "authenticate" THEN 1
  ELSE IF kind = "authorize" THEN 2
  ELSE IF kind = "validate" THEN 3
  ELSE 4

\* The steps run in the order authenticate, authorize, validate, persist
InTotalOrder(steps) ==
  \A i, j \in DOMAIN steps : i < j => stepRank(steps[i]) <= stepRank(steps[j])

\* The steps of a status update, in full
StatusUpdateOrder ==
  <<"authenticate", "authorize", "authorize", "validate", "validate",
    "authorize", "authorize", "persist">>

IsPrefix(s, t) == Len(s) <= Len(t) /\ \A i \in DOMAIN s : s[i] = t[i]

C31_CreatedPending ==
  (lastOp.op = "create" /\ lastOp.code = 201)
    => bookings[Len(bookings)].status = "pending"

\* C32: a request of the owning user (role user), status update or delete,
\* on a booking that is confirmed and, by the handler's own measure, less
\* than 3 days before its date never leaves the booking cancelled.
C32_NoticeNotBypassed ==
  [][\A i \in DOMAIN bookings :
       (/\ lastOp'.op \in {"status", "delete"}
        /\ lastOp'.id = i
        /\ lastOp'.user.role = "user"
        /\ lastOp'.user.id = bookings[i].userId
        /\ bookings[i].status = "confirmed"
        /\ daysDifference(bookings[i].date, now) < MinDaysRequired)
         => bookings'[i].status # "cancelled"]_vars

\* The Booking table after request a and then request b, each run alone
InSequence(a, b) ==
  putStatus(inflight[b].headers,
            putStatus(inflight[a].headers, <<RaceBooking>>, 1,
                      inflight[a].status, now).store,
            1, inflight[b].status, now).store

\* C33: once two interleaved status updates on a booking are both answered,
\* the Booking table is what one of the two sequential orders of the same
\* requests leaves.
C33_Serializable ==
  (\A r \in RaceRequests : inflight[r].pc = "done")
    => bookings \in {InSequence(1, 2), InSequence(2, 1)}

C35_UpdateOnlyByOwnerOrAdmin ==
  [][(/\ lastOp'.op = "updateQuote"
      /\ ~(\/ lastOp'.user.role = "admin"
           \/ /\ lastOp'.user.role = "service_provider"
              /\ lastOp'.before # None
              /\ ownedBy(lastOp'.before[1], lastOp'.user.id)
              /\ lastOp'.before[1].status = "draft"))
     => quotes' = quotes]_vars

\* The payload of the token a request carries, when it verifies
verifiedToken(req) ==
  IF req.authorization.kind = "bearer" /\ req.authorization.token # None
  THEN jwtVerify(req.authorization.token[1]) ELSE None

\* C36: a request forwarded on a non-public path reaches the downstream
\* service with X-User-Id and X-User-Role equal to the id and role of the
\* token the gateway verified, whatever identity headers the client sent.
C36_ForwardedIdentityIsTokens ==
  (/\ lastOp.op = "proxy"
   /\ lastOp.forwarded # {}
   /\ lastOp.request.path \notin publicPaths)
  => /\ verifiedToken(lastOp.request) # None
     /\ lastOp.downstream[1].xUserId
          = Some(verifiedToken(lastOp.request)[1].id)
     /\ lastOp.downstream[1].xUserRole
          = Some(verifiedToken(lastOp.request)[1].role)

\* C37: a vendor whose verified token reached the vendor service through
\* the gateway passes the vendor-or-admin KYC gate exactly when the token's
\* kycStatus is approved.
C37_KycFollowsToken ==
  (/\ lastOp.op = "proxy"
   /\ ~lastOp.request.upgrade
   /\ lastOp.forwarded = {"vendor"}
   /\ verifiedToken(lastOp.request) # None
   /\ verifiedToken(lastOp.request)[1].role = "vendor")
  => (lastOp.gate = 0
        <=> verifiedToken(lastOp.request)[1].kycStatus = "approved")

\* C38: an approve or reject request that succeeds reports
\* authServiceUpdated true exactly when the auth service accepted the
\* kycStatus update, and false when the call to the auth service failed.
C38_FlagFollowsAuthService ==
  (lastOp.op \in {"approve", "reject"} /\ lastOp.code = 200)
  => lastOp.authServiceUpdated = Some(lastOp.accepted)

\* C39: a vendor's create, update or delete request that concerns a venue
\* of another vendor leaves every calendar event unchanged.
C39_OwnVenueEventsOnly ==
  [][(/\ lastOp'.op \in {"createEvent", "updateEvent", "deleteEvent"}
      /\ lastOp'.user # None
      /\ lastOp'.user[1].role = "vendor"
      /\ lastOp'.concerns # None
      /\ findVenue(venues, lastOp'.concerns[1]) # None
      /\ findVenue(venues, lastOp'.concerns[1])[1].vendorId
           # lastOp'.user[1].id)
     => calendarEvents' = calendarEvents]_vars

====
